---- MODULE Spec2Model ----
(***************************************************************************)
(* Verification model of the rusticvision path tracer: ray/triangle and    *)
(* ray/box intersection, the object and scene scans, the recursive trace,  *)
(* the parallel per-pixel render loop, the conversion of the GPU buffer to *)
(* an image, the RayTracer builder and the OBJ parsers.                    *)
(*                                                                         *)
(* Numbers.  f32 values are modelled exactly: a coordinate or colour       *)
(* channel is an integer, a ray parameter t is a fraction <<n, d>> with    *)
(* d > 0, and a point on a ray is an integer vector over a common          *)
(* denominator w.  The values the slab test computes may be infinite or    *)
(* NaN (0 * inf); they are modelled as tagged values with the IEEE 754     *)
(* rules for them.                                                         *)
(***************************************************************************)
EXTENDS Integers, Sequences, FiniteSets, TLC

VARIABLES
    build,            \* vector backend glam was compiled for: "sse2" or "scalar"
    scene,            \* the Scene: [triangle_mesh, objects]
    sample_count,     \* SceneRenderer.sample_count
    recursion_depth,  \* SceneRenderer.recursion_depth
    \* Hit::closest_hit applied to two hits
    ch_self, ch_other, ch_result, ch_pc,
    \* Scene::intersect applied to a ray and bounds
    ix_ray, ix_tmin, ix_tmax, ix_result, ix_pc,
    \* one call trace(ray, 0, ONE) of SceneRenderer::trace
    tr_stack,         \* the active trace calls, outermost first
    tr_result,        \* value returned by the outermost call
    tr_pc,            \* "run" while the call is active, "done" after it returned
    tr_intersects,    \* number of scene.intersect calls made so far
    tr_calls,         \* number of trace calls made so far
    tr_path,          \* materials of the hits h0, h1, ... of the path so far
    tr_missed,        \* a trace call of the path found no hit
    \* SceneRenderer::render
    width, height,    \* camera.get_dimensions()
    update_count,     \* local `update_count`
    pixel_values,     \* the values render_pixel can return in this render
    progress,         \* AtomicU32 `progress`
    image,            \* the RgbImage behind the mutex: pixel -> bytes
    writes,           \* number of put_pixel calls per pixel
    poisoned,         \* the mutex was poisoned by a panic under the lock
    lock_holder,      \* worker holding the image mutex, or NoWorker
    iter_next,        \* position of the bridged iterator in the pixel sequence
    w_pc,             \* per worker: position in the for_each closure
    w_item,           \* per worker: the (x, y) it took from the iterator
    w_pixel,          \* per worker: the value render_pixel returned
    render_state      \* "running", "returned" or "panicked"

VARIABLES
    \* Renderer::to_image and SceneRenderer::vec3_to_rgb applied to drawn inputs
    overflow_checks,  \* the build checks integer overflow (debug) or wraps (release)
    ti_width, ti_height, \* Renderer.image_resolution
    ti_data,          \* the GPU buffer: a sequence of colours, first entry at index 0
    ti_image,         \* the RgbImage being filled: pixel -> bytes
    ti_next,          \* position of the pixel iterator
    ti_read,          \* pixel -> buffer index read for it
    ti_pc,            \* "run", "returned" or "panicked"
    qz_color,         \* argument of vec3_to_rgb
    qz_rgb,           \* its result
    qz_pc             \* "call" or "done"

tiVars == <<overflow_checks, ti_width, ti_height, ti_data, ti_image, ti_next, ti_read,
            ti_pc, qz_color, qz_rgb, qz_pc>>

VARIABLES
    \* one pixel rendered twice with the same random numbers, the second time
    \* with one emissive channel of one material raised
    mo_material,      \* index of the material changed
    mo_channel,       \* channel of its emissive colour that is raised
    mo_delta,         \* amount it is raised by
    mo_seed,          \* the seed of the thread's random number generator
    mo_base,          \* render_pixel and its bytes for the scene as given
    mo_raised,        \* render_pixel and its bytes with the channel raised
    mo_pc             \* "call" or "done"

moVars == <<mo_material, mo_channel, mo_delta, mo_seed, mo_base, mo_raised, mo_pc>>

VARIABLES
    \* the RayTracer builder of prelude.rs and a call of render or render_save
    rt_self,          \* the RayTracer value
    rt_calls,         \* number of setter calls made
    rt_log,           \* option -> how often its setter was called, with the last argument
    rt_entry,         \* "render" or "render_save", once called
    rt_pc,            \* position in render / render_save
    rt_read,          \* parse_obj has read the files
    rt_built,         \* the GPU data, camera and render settings were set up
    rt_drawn,         \* Renderer::render has run
    rt_used           \* the settings and camera render passed on

rtVars == <<rt_self, rt_calls, rt_log, rt_entry, rt_pc, rt_read, rt_built, rt_drawn, rt_used>>

VARIABLES
    \* the OBJ parsers: parse_obj (parser/mod.rs, parser/triangle_parser.rs) and
    \* get_objects (scene/parser.rs, scene/object/parser.rs)
    ps_pipeline,      \* "parse_obj" or "get_objects"
    ps_overflow_checks, \* the build checks integer overflow (debug) or wraps (release)
    ps_file,          \* the `o`, `usemtl` and `f` lines of the OBJ file, in order
    ps_material_map,  \* material name -> index, from the MTL file
    ps_object_map,    \* object name -> its `usemtl` and `f` lines
    ps_parsed,        \* object name -> what the triangle parser returns for its lines
    ps_objects,       \* the object records delivered
    ps_triangles,     \* the triangle index tuples delivered
    ps_error,         \* the panic message
    ps_pc             \* "start", "extracted", "objects", "delivered" or "panicked"

psVars == <<ps_pipeline, ps_overflow_checks, ps_file, ps_material_map, ps_object_map, ps_parsed, ps_objects, ps_triangles, ps_error, ps_pc>>

VARIABLES
    \* the MTL parsers: materials of parser/material_parser.rs and of
    \* primitives/material/parser.rs
    mt_parser,        \* "material_parser" or "primitives"
    mt_file,          \* the lines of the MTL file, in order
    mt_newline_at_end, \* the last line of the file ends with a line ending
    mt_materials,     \* the materials returned
    mt_map,           \* the name -> index map returned
    mt_pc             \* "call", "returned" or "error"

mtVars == <<mt_parser, mt_file, mt_newline_at_end, mt_materials, mt_map, mt_pc>>

VARIABLES
    \* Object::new and Object::intersect, step by step
    ob_build,         \* the glam backend of the build
    ob_mesh,          \* the mesh the object belongs to
    ob_start,         \* triangle_start_index given to Object::new
    ob_count,         \* triangle_count given to Object::new
    ob_self,          \* the object built
    ob_ray, ob_tmin, ob_tmax,   \* the arguments of intersect
    ob_box,           \* "untested", "accepted" or "rejected"
    ob_i,             \* triangles of the range already visited by the loop
    ob_tests,         \* calls of Triangle::intersect made so far
    ob_closest,       \* closest_hit of the loop
    ob_result,        \* the value returned
    ob_pc             \* "new", "call", "tested" or "returned"

obVars == <<ob_build, ob_mesh, ob_start, ob_count, ob_self, ob_ray, ob_tmin, ob_tmax, ob_box, ob_i, ob_tests, ob_closest, ob_result, ob_pc>>

VARIABLES
    \* Triangle::intersect applied to drawn triangles, rays and bounds
    tg_self,          \* the triangle
    tg_ray, tg_tmin, tg_tmax,   \* the arguments
    tg_result,        \* the value returned
    tg_pc             \* "call" or "done"

tgVars == <<tg_self, tg_ray, tg_tmin, tg_tmax, tg_result, tg_pc>>

VARIABLES
    \* Camera::get_camera_rays
    cm_width, cm_height,   \* the dimensions of the camera
    cm_position,      \* the position of the camera
    cm_x, cm_y,       \* the loop variables
    cm_rays,          \* the vector of rays built so far
    cm_pc             \* "loop" or "returned"

cmVars == <<cm_width, cm_height, cm_position, cm_x, cm_y, cm_rays, cm_pc>>

extVars == <<tiVars, moVars, rtVars, psVars, mtVars, obVars, tgVars, cmVars>>

envVars == <<build, scene, sample_count, recursion_depth>>
chVars == <<ch_self, ch_other, ch_result, ch_pc>>
ixVars == <<ix_ray, ix_tmin, ix_tmax, ix_result, ix_pc>>
trVars == <<tr_stack, tr_result, tr_pc, tr_intersects, tr_calls, tr_path, tr_missed>>
rdVars == <<width, height, update_count, pixel_values, progress, image, writes, poisoned,
            lock_holder, iter_next, w_pc, w_item, w_pixel, render_state>>

coreVars == <<envVars, chVars, ixVars, trVars, rdVars>>

\* everything but tiVars
tiOthers == <<coreVars, moVars, rtVars, psVars, mtVars, obVars, tgVars, cmVars>>

\* everything but moVars
moOthers == <<coreVars, tiVars, rtVars, psVars, mtVars, obVars, tgVars, cmVars>>

\* everything but rtVars
rtOthers == <<coreVars, tiVars, moVars, psVars, mtVars, obVars, tgVars, cmVars>>

\* everything but psVars
psOthers == <<coreVars, tiVars, moVars, rtVars, mtVars, obVars, tgVars, cmVars>>

\* everything but mtVars
mtOthers == <<coreVars, tiVars, moVars, rtVars, psVars, obVars, tgVars, cmVars>>

\* everything but obVars
obOthers == <<coreVars, tiVars, moVars, rtVars, psVars, mtVars, tgVars, cmVars>>

\* everything but tgVars
tgOthers == <<coreVars, tiVars, moVars, rtVars, psVars, mtVars, obVars, cmVars>>

\* everything but cmVars
cmOthers == <<coreVars, tiVars, moVars, rtVars, psVars, mtVars, obVars, tgVars>>

vars == <<coreVars, extVars>>

----------------------------------------------------------------------------
(* Bounds of the model *)

\* largest number of objects in a scene
MaxObjects == 2

\* largest recursion_depth of the renderer
MaxDepth == 2

\* largest sample_count of the renderer
MaxSamples == 2

\* number of worker threads of the rayon pool
NumWorkers == 2

\* number of pool threads rendering an image of a hundred pixels or more
LargePool == 1

\* largest width and height of an image converted by Renderer::to_image
MaxSide == 3

----------------------------------------------------------------------------
(* Integer and fraction arithmetic *)

Abs(x) == IF x < 0 THEN -x ELSE x

Sign(x) == IF x < 0 THEN -1 ELSE IF x > 0 THEN 1 ELSE 0

RECURSIVE Gcd(_, _)
Gcd(a, b) == IF b = 0 THEN Abs(a) ELSE Gcd(b, a % b)

\* fraction n/d in lowest terms with a positive denominator (d # 0)
Frac(n, d) ==
    LET g == Gcd(Abs(n), Abs(d))
        s == Sign(d)
    IN  <<(s * n) \div g, (s * d) \div g>>

FracLt(p, q) == p[1] * q[2] < q[1] * p[2]

FracMin(p, q) == IF FracLt(q, p) THEN q ELSE p

----------------------------------------------------------------------------
(* glam::Vec3A *)

VSub(a, b) == <<a[1] - b[1], a[2] - b[2], a[3] - b[3]>>
VAdd(a, b) == <<a[1] + b[1], a[2] + b[2], a[3] + b[3]>>
VScale(a, k) == <<a[1] * k, a[2] * k, a[3] * k>>
VMul(a, b) == <<a[1] * b[1], a[2] * b[2], a[3] * b[3]>>
Dot(a, b) == a[1] * b[1] + a[2] * b[2] + a[3] * b[3]
Cross(a, b) == <<a[2] * b[3] - a[3] * b[2],
                 a[3] * b[1] - a[1] * b[3],
                 a[1] * b[2] - a[2] * b[1]>>
ZERO == <<0, 0, 0>>
ONE == <<1, 1, 1>>

----------------------------------------------------------------------------
(* Ray and Hit (primitives/ray.rs) *)

\* Ray::new; the origin is the point origin / w
Ray(origin, w, direction) == [origin |-> origin, w |-> w, direction |-> direction]

\* Hit::new; hit_point is the point hit_point / w
Hit(hit_point, w, distance, incoming, triangle_index) ==
    [hit_point |-> hit_point, w |-> w, distance |-> distance,
     incoming |-> incoming, triangle_index |-> triangle_index]

None == [some |-> FALSE]
Some(h) == [some |-> TRUE, hit |-> h]

\* closest_hit comparing with <= instead of <
closest_hit_le(self, other) ==
    IF ~FracLt(other.distance, self.distance) THEN self ELSE other

\* Hit::closest_hit(self, other)
closest_hit(self, other) ==
    IF FracLt(self.distance, other.distance) THEN self ELSE other

----------------------------------------------------------------------------
(* f32 values of the slab test: finite, +inf, -inf or NaN *)

Fin(n, d) == [k |-> "fin", v |-> Frac(n, d)]
PInf == [k |-> "pinf"]
NInf == [k |-> "ninf"]
NaN == [k |-> "nan"]

\* f32::INFINITY and f32::NEG_INFINITY of a signed zero or non-zero value
InfOfSign(s) == IF s > 0 THEN PInf ELSE NInf

\* sign of a non-NaN value
XSign(x) ==
    CASE x.k = "fin" -> Sign(x.v[1])
      [] x.k = "pinf" -> 1
      [] x.k = "ninf" -> -1

\* IEEE 754 multiplication
XMul(x, y) ==
    IF x.k = "nan" \/ y.k = "nan" THEN NaN
    ELSE IF x.k = "fin" /\ y.k = "fin"
         THEN Fin(x.v[1] * y.v[1], x.v[2] * y.v[2])
    ELSE IF XSign(x) = 0 \/ XSign(y) = 0 THEN NaN
    ELSE InfOfSign(XSign(x) * XSign(y))

\* IEEE 754 subtraction x - y of a possibly infinite x and a finite y
XSub(x, y) ==
    IF x.k = "fin"
    THEN Fin(x.v[1] * y.v[2] - y.v[1] * x.v[2], x.v[2] * y.v[2])
    ELSE x

\* IEEE 754 x < y: false when either side is NaN
XLt(x, y) ==
    IF x.k = "nan" \/ y.k = "nan" THEN FALSE
    ELSE IF x.k = "ninf" THEN y.k # "ninf"
    ELSE IF x.k = "pinf" THEN FALSE
    ELSE IF y.k = "pinf" THEN TRUE
    ELSE IF y.k = "ninf" THEN FALSE
    ELSE FracLt(x.v, y.v)

\* IEEE 754 x >= y: false when either side is NaN
XGe(x, y) ==
    IF x.k = "nan" \/ y.k = "nan" THEN FALSE ELSE ~XLt(x, y)

\* f32::min and f32::max of the standard library: a NaN operand is ignored
F32Min(x, y) ==
    IF x.k = "nan" THEN y ELSE IF y.k = "nan" THEN x
    ELSE IF XLt(y, x) THEN y ELSE x

F32Max(x, y) ==
    IF x.k = "nan" THEN y ELSE IF y.k = "nan" THEN x
    ELSE IF XLt(x, y) THEN y ELSE x

\* one lane of Vec3A::min / Vec3A::max.  The SSE2 backend is MINPS / MAXPS,
\* which return the second operand unless the comparison holds; the scalar
\* backend is f32::min / f32::max.
LaneMin(b, x, y) == IF b = "sse2" THEN (IF XLt(x, y) THEN x ELSE y) ELSE F32Min(x, y)

LaneMax(b, x, y) == IF b = "sse2" THEN (IF XLt(y, x) THEN x ELSE y) ELSE F32Max(x, y)

\* Vec3A::min, Vec3A::max
Vec3Min(b, p, q) == [i \in 1..3 |-> LaneMin(b, p[i], q[i])]

Vec3Max(b, p, q) == [i \in 1..3 |-> LaneMax(b, p[i], q[i])]

\* Vec3A::min_element, Vec3A::max_element: two shuffled MINPS / MAXPS on
\* SSE2, x.min(y.min(z)) on the scalar backend
min_element(b, p) ==
    IF b = "sse2" THEN LaneMin(b, LaneMin(b, p[1], p[3]), LaneMin(b, p[2], p[3]))
    ELSE F32Min(p[1], F32Min(p[2], p[3]))

max_element(b, p) ==
    IF b = "sse2" THEN LaneMax(b, LaneMax(b, p[1], p[3]), LaneMax(b, p[2], p[3]))
    ELSE F32Max(p[1], F32Max(p[2], p[3]))

\* Vec3A::recip of an integer direction: 1 / 0 is +inf
Recip(d) == [i \in 1..3 |-> IF d[i] = 0 THEN PInf ELSE Fin(1, d[i])]

\* a fraction as an f32 value
XOfFrac(p) == Fin(p[1], p[2])

----------------------------------------------------------------------------
(* BoundingBox (primitives/aabb.rs); min and max are vectors of f32 values *)

BoundingBox(min, max) == [min |-> min, max |-> max]

\* BoundingBox::intersect(&self, ray, t_min, t_max) -> bool
SlabTest(b, t0, t1, t_min, t_max) ==
    XGe(F32Min(XOfFrac(t_max), min_element(b, Vec3Max(b, t0, t1))),
        F32Max(XOfFrac(t_min), max_element(b, Vec3Min(b, t0, t1))))

BoundingBoxIntersect(b, self, ray, t_min, t_max) ==
    SlabTest(b,
        [i \in 1..3 |-> XMul(XSub(self.min[i], Fin(ray.origin[i], ray.w)), Recip(ray.direction)[i])],
        [i \in 1..3 |-> XMul(XSub(self.max[i], Fin(ray.origin[i], ray.w)), Recip(ray.direction)[i])],
        t_min, t_max)

----------------------------------------------------------------------------
(* Triangle (primitives/triangle/mod.rs) *)

\* Triangle::new: the three vertex positions and the triangle's index record
Triangle(v0, v1, v2, triangle_index) ==
    [v0 |-> v0, v1 |-> v1, v2 |-> v2, triangle_index |-> triangle_index]

\* a maximum that is the first vertex
TriangleMaxOfV0(tri) == tri.v0

\* Triangle::min, Triangle::max
TriangleMin(tri) ==
    [i \in 1..3 |->
        LET a == tri.v0[i] b == tri.v1[i] c == tri.v2[i]
            m == IF a < b THEN a ELSE b
        IN  IF m < c THEN m ELSE c]

TriangleMax(tri) ==
    [i \in 1..3 |->
        LET a == tri.v0[i] b == tri.v1[i] c == tri.v2[i]
            m == IF a > b THEN a ELSE b
        IN  IF m > c THEN m ELSE c]

\* Ray::at(t) for a fraction t, as an integer vector over the denominator
\* it is returned with: <<point, denominator>>
RayAt(ray, t) ==
    <<VAdd(VScale(ray.origin, t[2]), VScale(ray.direction, t[1] * ray.w)), ray.w * t[2]>>

\* the same point in lowest terms
Gcd4(a, b, c, d) == Gcd(Gcd(Gcd(Abs(a), Abs(b)), Abs(c)), Abs(d))

ReduceBy(p, g) == <<<<p[1][1] \div g, p[1][2] \div g, p[1][3] \div g>>, p[2] \div g>>

Reduce(p) == ReduceBy(p, Gcd4(p[1][1], p[1][2], p[1][3], p[2]))

\* `Hit::new(ray.at(t), t, *ray, ...)`
HitAt(p, t, ray, triangle_index) == Hit(p[1], p[2], t, ray, triangle_index)

\* the bounds test with the bounds themselves admitted
TriangleBoundsInclusive(self, ray, t, t_min, t_max) ==
    IF ~FracLt(t, t_min) /\ ~FracLt(t_max, t)
    THEN Some(HitAt(Reduce(RayAt(ray, t)), t, ray, self.triangle_index))
    ELSE None

\* `if t > t_min && t < t_max { return Some(Hit::new(...)) } None`
TriangleBounds(self, ray, t, t_min, t_max) ==
    IF FracLt(t_min, t) /\ FracLt(t, t_max)
    THEN Some(HitAt(Reduce(RayAt(ray, t)), t, ray, self.triangle_index))
    ELSE None

\* the tests of v and u + v with the edges v = 0 and u + v = 1 left out
TriangleVStrict(self, ray, t_min, t_max, edge1, q, sg, un, den) ==
    IF sg * Dot(ray.direction, q) <= 0 \/ un + sg * Dot(ray.direction, q) >= den
    THEN None
    ELSE TriangleBounds(self, ray, Frac(sg * Dot(edge1, q), den), t_min, t_max)

\* the tests of v and u + v, then t = f * edge1.dot(q); un = u * den,
\* q = w * (s x edge0), sg is the sign of a and den = w * |a|
TriangleV(self, ray, t_min, t_max, edge1, q, sg, un, den) ==
    IF sg * Dot(ray.direction, q) < 0 \/ un + sg * Dot(ray.direction, q) > den
    THEN None
    ELSE TriangleBounds(self, ray, Frac(sg * Dot(edge1, q), den), t_min, t_max)

\* the test of u = f * s.dot(h); s = w * (origin - v0)
TriangleU(self, ray, t_min, t_max, edge0, edge1, h, s, sg, den) ==
    IF ~(0 <= sg * Dot(s, h) /\ sg * Dot(s, h) <= den) THEN None
    ELSE TriangleV(self, ray, t_min, t_max, edge1, Cross(s, edge0), sg, sg * Dot(s, h), den)

\* the test of the determinant a = edge0.dot(h).  With integer vertices
\* and directions a is an integer, so |a| < f32::EPSILON is a = 0.
TriangleDet(self, ray, t_min, t_max, edge0, edge1, h, a) ==
    IF Abs(a) < 1 THEN None
    ELSE TriangleU(self, ray, t_min, t_max, edge0, edge1, h,
                   VSub(ray.origin, VScale(self.v0, ray.w)), Sign(a), ray.w * Abs(a))

TriangleEdges(self, ray, t_min, t_max, edge0, edge1) ==
    TriangleDet(self, ray, t_min, t_max, edge0, edge1,
                Cross(ray.direction, edge1), Dot(edge0, Cross(ray.direction, edge1)))

\* Triangle::intersect (Moeller-Trumbore); u, v and t are fractions over
\* the common denominator w * |a|
TriangleIntersect(self, ray, t_min, t_max) ==
    TriangleEdges(self, ray, t_min, t_max, VSub(self.v1, self.v0), VSub(self.v2, self.v0))

----------------------------------------------------------------------------
(* TriangleIndex, Material and TriangleMesh *)

\* TriangleIndex::new; the indices are zero-based
TriangleIndex(v1, v2, v3, n, m) ==
    [vertex_indices |-> <<v1, v2, v3>>, normal_index |-> n, material_index |-> m]

\* Material: the two colours the renderer reads
Material(diffuse_color, emissive_color) ==
    [diffuse_color |-> diffuse_color, emissive_color |-> emissive_color]

\* TriangleMesh::new
TriangleMesh(vertex_positions, triangle_normals, materials, triangle_indices) ==
    [vertex_positions |-> vertex_positions, triangle_normals |-> triangle_normals,
     materials |-> materials, triangle_indices |-> triangle_indices]

\* TriangleMesh::get_triangle; a zero-based index i reads element i + 1
get_triangle(mesh, triangle_index) ==
    Triangle(mesh.vertex_positions[triangle_index.vertex_indices[1] + 1],
             mesh.vertex_positions[triangle_index.vertex_indices[2] + 1],
             mesh.vertex_positions[triangle_index.vertex_indices[3] + 1],
             triangle_index)

\* Hit::material
HitMaterial(hit, mesh) == mesh.materials[hit.triangle_index.material_index + 1]

----------------------------------------------------------------------------
(* Object (scene/object.rs) *)

\* Object::triangle_indices: the slice [start .. start + count) of the mesh
ObjectTriangleIndices(mesh, start, count) ==
    [i \in 1..count |-> mesh.triangle_indices[start + i]]

\* an integer vector as a vector of f32 values
XVec(p) == [j \in 1..3 |-> Fin(p[j], 1)]

\* Object::bounding_box: fold of Vec3A::min / Vec3A::max from (+inf, -inf)
RECURSIVE BoundingBoxFold(_, _, _, _, _)
BoundingBoxFold(b, mesh, tris, i, acc) ==
    IF i > Len(tris) THEN acc
    ELSE BoundingBoxFold(b, mesh, tris, i + 1,
             BoundingBox(Vec3Min(b, acc.min, XVec(TriangleMin(get_triangle(mesh, tris[i])))),
                         Vec3Max(b, acc.max, XVec(TriangleMax(get_triangle(mesh, tris[i]))))))

\* a box over every triangle of the mesh, whatever the range
ObjectBoundingBoxOfMesh(b, triangle_start_index, triangle_count, mesh) ==
    BoundingBoxFold(b, mesh, mesh.triangle_indices, 1,
        BoundingBox(<<PInf, PInf, PInf>>, <<NInf, NInf, NInf>>))

ObjectBoundingBox(b, triangle_start_index, triangle_count, mesh) ==
    BoundingBoxFold(b, mesh,
        ObjectTriangleIndices(mesh, triangle_start_index, triangle_count), 1,
        BoundingBox(<<PInf, PInf, PInf>>, <<NInf, NInf, NInf>>))

\* Object::new
Object(b, identifier, triangle_start_index, triangle_count, mesh) ==
    [identifier |-> identifier,
     triangle_start_index |-> triangle_start_index,
     triangle_count |-> triangle_count,
     bounding_box |-> ObjectBoundingBox(b, triangle_start_index, triangle_count, mesh)]

\* the body of the loops of Object::intersect and Scene::intersect: a new
\* hit replaces the closest so far through `hit.closest_hit(closest)`
UpdateClosest(found, closest) ==
    IF found.some
    THEN (IF closest.some THEN Some(closest_hit(found.hit, closest.hit))
          ELSE Some(found.hit))
    ELSE closest

\* the triangle loop of Object::intersect
RECURSIVE ObjectScan(_, _, _, _, _, _, _)
ObjectScan(mesh, tris, i, ray, t_min, t_max, closest) ==
    IF i > Len(tris) THEN closest
    ELSE ObjectScan(mesh, tris, i + 1, ray, t_min, t_max,
             UpdateClosest(TriangleIntersect(get_triangle(mesh, tris[i]), ray, t_min, t_max),
                           closest))

\* Object::intersect
ObjectIntersect(b, mesh, self, ray, t_min, t_max) ==
    IF ~BoundingBoxIntersect(b, self.bounding_box, ray, t_min, t_max) THEN None
    ELSE ObjectScan(mesh,
             ObjectTriangleIndices(mesh, self.triangle_start_index, self.triangle_count),
             1, ray, t_min, t_max, None)

----------------------------------------------------------------------------
(* Scene (scene/mod.rs) *)

\* Scene::new
Scene(triangle_mesh, objects) == [triangle_mesh |-> triangle_mesh, objects |-> objects]

\* the object loop of Scene::intersect
RECURSIVE SceneScan(_, _, _, _, _, _, _)
SceneScan(b, sc, i, ray, t_min, t_max, closest) ==
    IF i > Len(sc.objects) THEN closest
    ELSE SceneScan(b, sc, i + 1, ray, t_min, t_max,
             UpdateClosest(ObjectIntersect(b, sc.triangle_mesh, sc.objects[i], ray, t_min, t_max),
                           closest))

\* Scene::intersect
SceneIntersect(b, sc, ray, t_min, t_max) == SceneScan(b, sc, 1, ray, t_min, t_max, None)

----------------------------------------------------------------------------
(* Inputs: meshes, objects, scenes, rays and bounds *)

Builds == {"sse2", "scalar"}

\* six triangles: T0 and T2 in the plane z = 5, T1 in z = 3, T3 in z = -5,
\* T4 of zero area, T5 in z = 7 with a vertex on the z axis
Positions ==
    << <<-4, -4, 5>>, <<4, -4, 5>>, <<0, 4, 5>>,
       <<-4, -4, 3>>, <<4, -4, 3>>, <<0, 4, 3>>,
       <<-3, -3, 5>>, <<3, -3, 5>>, <<0, 3, 5>>,
       <<-4, -4, -5>>, <<4, -4, -5>>, <<0, 4, -5>>,
       <<0, 0, 2>>, <<1, 1, 2>>, <<2, 2, 2>>,
       <<0, 0, 7>>, <<4, 0, 7>>, <<0, 4, 7>> >>

Normals == << <<0, 0, -1>>, <<0, 0, 1>> >>

TriangleIndices ==
    << TriangleIndex(0, 1, 2, 0, 0), TriangleIndex(3, 4, 5, 0, 1),
       TriangleIndex(6, 7, 8, 0, 2), TriangleIndex(9, 10, 11, 1, 1),
       TriangleIndex(12, 13, 14, 0, 0), TriangleIndex(15, 16, 17, 0, 2) >>

\* material tables: one with light sources, one without any
LitMaterials ==
    << Material(<<2, 1, 0>>, <<1, 0, 2>>),
       Material(<<1, 2, 1>>, <<0, 1, 1>>),
       Material(<<1, 1, 1>>, <<0, 0, 0>>) >>

DarkMaterials ==
    << Material(<<2, 1, 0>>, <<0, 0, 0>>),
       Material(<<1, 2, 1>>, <<0, 0, 0>>),
       Material(<<1, 1, 1>>, <<0, 0, 0>>) >>

Meshes ==
    { TriangleMesh(Positions, Normals, m, TriangleIndices) : m \in {LitMaterials, DarkMaterials} }

\* (triangle_start_index, triangle_count) of the objects a scene may hold
ObjectRanges ==
    { <<0, 1>>, <<1, 1>>, <<2, 1>>, <<0, 2>>, <<3, 2>>, <<5, 1>>, <<0, 0>> }

SeqsUpTo(S, n) == UNION { [1..k -> S] : k \in 0..n }

\* every scene of at most MaxObjects objects over mesh, in every order
ScenesOf(b, mesh) ==
    { Scene(mesh, [i \in 1..Len(rs) |-> Object(b, "o", rs[i][1], rs[i][2], mesh)]) :
        rs \in SeqsUpTo(ObjectRanges, MaxObjects) }

Directions ==
    { <<0, 0, 1>>, <<0, 0, -1>>, <<1, 0, 0>>, <<-1, 0, 0>>, <<0, 1, 0>>, <<0, -1, 0>> }

\* rays for Scene::intersect: unit and non-unit directions, integer and
\* fractional origins
Rays ==
    { Ray(o, 1, d) : o \in {<<0, 0, 0>>, <<0, 0, 4>>}, d \in Directions \cup {<<0, 0, 2>>, <<0, 1, 4>>} }
    \cup { Ray(<<1, 1, 0>>, 2, d) : d \in {<<0, 0, 1>>, <<0, 0, -1>>} }

TMins == { <<1, 100>>, <<3, 1>>, <<5, 1>> }
TMaxs == { <<3, 1>>, <<5, 1>>, <<100, 1>> }

----------------------------------------------------------------------------
(* Values of the variables a specification does not use *)

NoWorker == 0

IdleScene == Scene(TriangleMesh(<<>>, <<>>, <<>>, <<>>), <<>>)

IdleEnv ==
    /\ build = "scalar"
    /\ scene = IdleScene
    /\ sample_count = 1
    /\ recursion_depth = 1

IdleClosest ==
    /\ ch_self = None
    /\ ch_other = None
    /\ ch_result = None
    /\ ch_pc = "idle"

IdleIntersect ==
    /\ ix_ray = Ray(ZERO, 1, <<0, 0, 1>>)
    /\ ix_tmin = <<0, 1>>
    /\ ix_tmax = <<0, 1>>
    /\ ix_result = None
    /\ ix_pc = "idle"

IdleTrace ==
    /\ tr_stack = <<>>
    /\ tr_result = ZERO
    /\ tr_pc = "idle"
    /\ tr_intersects = 0
    /\ tr_calls = 0
    /\ tr_path = <<>>
    /\ tr_missed = FALSE

IdleRender ==
    /\ width = 0
    /\ height = 0
    /\ update_count = 0
    /\ pixel_values = {}
    /\ progress = 0
    /\ image = <<>>
    /\ writes = <<>>
    /\ poisoned = FALSE
    /\ lock_holder = NoWorker
    /\ iter_next = 0
    /\ w_pc = <<>>
    /\ w_item = <<>>
    /\ w_pixel = <<>>
    /\ render_state = "idle"

IdleToImage ==
    /\ overflow_checks = FALSE
    /\ ti_width = 0
    /\ ti_height = 0
    /\ ti_data = <<>>
    /\ ti_image = <<>>
    /\ ti_next = 0
    /\ ti_read = <<>>
    /\ ti_pc = "idle"
    /\ qz_color = [sum |-> ZERO, n |-> 1]
    /\ qz_rgb = <<0, 0, 0>>
    /\ qz_pc = "idle"

IdleEmissive ==
    /\ mo_material = 0
    /\ mo_channel = 1
    /\ mo_delta = 0
    /\ mo_seed = 0
    /\ mo_base = <<>>
    /\ mo_raised = <<>>
    /\ mo_pc = "idle"

IdleRayTracer ==
    /\ rt_self = <<>>
    /\ rt_calls = 0
    /\ rt_log = <<>>
    /\ rt_entry = "none"
    /\ rt_pc = "idle"
    /\ rt_read = FALSE
    /\ rt_built = FALSE
    /\ rt_drawn = FALSE
    /\ rt_used = <<>>

IdleParser ==
    /\ ps_pipeline = "none"
    /\ ps_overflow_checks = FALSE
    /\ ps_file = <<>>
    /\ ps_material_map = <<>>
    /\ ps_object_map = <<>>
    /\ ps_parsed = <<>>
    /\ ps_objects = <<>>
    /\ ps_triangles = <<>>
    /\ ps_error = ""
    /\ ps_pc = "idle"

IdleMaterials ==
    /\ mt_parser = "none"
    /\ mt_file = <<>>
    /\ mt_newline_at_end = FALSE
    /\ mt_materials = <<>>
    /\ mt_map = <<>>
    /\ mt_pc = "idle"

IdleObject ==
    /\ ob_build = "scalar"
    /\ ob_mesh = TriangleMesh(<<>>, <<>>, <<>>, <<>>)
    /\ ob_start = 0
    /\ ob_count = 0
    /\ ob_self = [identifier |-> ""]
    /\ ob_ray = Ray(ZERO, 1, ZERO)
    /\ ob_tmin = <<0, 1>>
    /\ ob_tmax = <<0, 1>>
    /\ ob_box = "untested"
    /\ ob_i = 0
    /\ ob_tests = 0
    /\ ob_closest = None
    /\ ob_result = None
    /\ ob_pc = "idle"

IdleTriangle ==
    /\ tg_self = Triangle(ZERO, ZERO, ZERO, TriangleIndex(0, 0, 0, 0, 0))
    /\ tg_ray = Ray(ZERO, 1, ZERO)
    /\ tg_tmin = <<0, 1>>
    /\ tg_tmax = <<0, 1>>
    /\ tg_result = None
    /\ tg_pc = "idle"

IdleCamera ==
    /\ cm_width = 0
    /\ cm_height = 0
    /\ cm_position = ZERO
    /\ cm_x = 0
    /\ cm_y = 0
    /\ cm_rays = <<>>
    /\ cm_pc = "idle"

IdleExt == IdleToImage /\ IdleEmissive /\ IdleRayTracer /\ IdleParser /\ IdleMaterials /\ IdleObject /\ IdleTriangle /\ IdleCamera

IdleCore == IdleEnv /\ IdleClosest /\ IdleIntersect /\ IdleTrace /\ IdleRender

----------------------------------------------------------------------------
(* Hit::closest_hit applied to drawn hits *)

\* hits at four distances on three triangles
ClosestHits ==
    { Hit(<<0, 0, d[1]>>, d[2], d, Ray(ZERO, 1, <<0, 0, 1>>), TriangleIndices[i]) :
        d \in { <<1, 2>>, <<1, 1>>, <<3, 1>>, <<5, 1>> }, i \in 1..3 }

InitClosest ==
    /\ IdleEnv /\ IdleIntersect /\ IdleTrace /\ IdleRender
    /\ IdleExt
    /\ ch_self \in ClosestHits
    /\ ch_other \in ClosestHits
    /\ ch_result = None
    /\ ch_pc = "call"

ClosestHitCall ==
    /\ ch_pc = "call"
    /\ ch_result' = Some(closest_hit(ch_self, ch_other))
    /\ ch_pc' = "done"
    /\ UNCHANGED <<ch_self, ch_other, envVars, extVars, ixVars, trVars, rdVars>>

NextClosest == ClosestHitCall

SpecClosest == InitClosest /\ [][NextClosest]_vars

\* C6 as stated: closest_hit(a, b) has the smaller distance and returns the
\* first argument a when the distances are equal.
C6_Original_TiesToFirst ==
    ch_pc = "done" =>
        /\ ch_result.hit.distance = FracMin(ch_self.distance, ch_other.distance)
        /\ (ch_self.distance = ch_other.distance => ch_result.hit = ch_self)

\* C6 amended: closest_hit(a, b) has the distance min(a.distance, b.distance);
\* it returns a only when a.distance < b.distance, so when the distances are
\* equal the second argument b is the hit returned.
C6_ClosestHitTiesToOther ==
    ch_pc = "done" =>
        /\ ch_result.hit.distance = FracMin(ch_self.distance, ch_other.distance)
        /\ ch_result.hit \in {ch_self, ch_other}
        /\ (ch_self.distance = ch_other.distance => ch_result.hit = ch_other)
        /\ (ch_result.hit = ch_self /\ ch_self # ch_other =>
                FracLt(ch_self.distance, ch_other.distance))

\* two different hits at the same distance were compared
C6_Witness ==
    /\ ch_pc = "done"
    /\ ch_self.distance = ch_other.distance
    /\ ch_self # ch_other

----------------------------------------------------------------------------
(* Scene::intersect applied to drawn inputs *)

InitIntersect ==
    /\ IdleClosest /\ IdleTrace /\ IdleRender
    /\ IdleExt
    /\ build \in Builds
    /\ \E mesh \in Meshes : scene \in ScenesOf(build, mesh)
    /\ sample_count = 1
    /\ recursion_depth = 1
    /\ ix_ray \in Rays
    /\ ix_tmin \in TMins
    /\ ix_tmax \in TMaxs
    /\ ix_result = None
    /\ ix_pc = "call"

SceneIntersectCall ==
    /\ ix_pc = "call"
    /\ ix_result' = SceneIntersect(build, scene, ix_ray, ix_tmin, ix_tmax)
    /\ ix_pc' = "done"
    /\ UNCHANGED <<ix_ray, ix_tmin, ix_tmax, envVars, extVars, chVars, trVars, rdVars>>

NextIntersect == SceneIntersectCall

SpecIntersect == InitIntersect /\ [][NextIntersect]_vars

\* the hits Triangle::intersect reports for the triangles of all objects
SceneTriangleHits(sc, ray, t_min, t_max) ==
    LET mesh == sc.triangle_mesh
        ObjHits(obj) ==
            { TriangleIntersect(
                  get_triangle(mesh, mesh.triangle_indices[obj.triangle_start_index + i]),
                  ray, t_min, t_max) : i \in 1..obj.triangle_count }
    IN  { r.hit : r \in { rr \in UNION { ObjHits(sc.objects[o]) : o \in DOMAIN sc.objects } :
                          rr.some } }

\* bounds wide enough to admit every intersection parameter of the inputs
WideMin == <<-1000, 1>>
WideMax == <<1000, 1>>

\* C4: Scene::intersect returns a hit at the minimum distance over all
\* triangle hits of all objects of the scene, and no hit exactly when there
\* is none.
C4_SceneClosestOfAllTriangleHits ==
    ix_pc = "done" =>
        LET H == SceneTriangleHits(scene, ix_ray, ix_tmin, ix_tmax)
        IN  /\ ix_result.some <=> H # {}
            /\ ix_result.some =>
                  /\ \E h \in H : h.distance = ix_result.hit.distance
                  /\ \A h \in H : ~FracLt(h.distance, ix_result.hit.distance)

\* C5: every hit Scene::intersect returns lies strictly between t_min and
\* t_max.
C5_HitStrictlyInsideBounds ==
    (ix_pc = "done" /\ ix_result.some) =>
        /\ FracLt(ix_tmin, ix_result.hit.distance)
        /\ FracLt(ix_result.hit.distance, ix_tmax)

\* C4 fails where a ray runs inside the plane of a box face: the box test
\* computes 0 * inf = NaN and rejects the object although a triangle is hit
C4_Witness_CulledTriangleHit ==
    /\ ix_pc = "done"
    /\ ~ix_result.some
    /\ SceneTriangleHits(scene, ix_ray, ix_tmin, ix_tmax) # {}

\* a triangle whose parameter equals t_max is passed over for a nearer hit
C5_Witness ==
    /\ ix_pc = "done"
    /\ ix_result.some
    /\ \E h \in SceneTriangleHits(scene, ix_ray, WideMin, WideMax) : h.distance = ix_tmax

----------------------------------------------------------------------------
(* SceneRenderer::trace (scene/renderer.rs) as a call stack *)

\* the bounds trace passes to scene.intersect: 0.01 and 100.0
TraceTMin == <<1, 100>>
TraceTMax == <<100, 1>>

\* the factor applied to the emissive colour
EmissiveGain == 5

\* a background that is not black
SkyColor == ONE

\* `let mut color = Vec3A::ZERO`
InitialColor == ZERO

\* the emission scaled by the diffuse colour of the hit itself
TraceHitColorAfterDiffuse(material, throughput) ==
    VScale(VMul(material.emissive_color, VMul(throughput, material.diffuse_color)),
           EmissiveGain)

\* the diffuse colour read where the emissive colour belongs
TraceHitColorOfDiffuse(material, throughput) ==
    VScale(VMul(material.diffuse_color, throughput), EmissiveGain)

\* an emissive term that is subtracted
TraceHitColorDarkens(material, throughput) ==
    VScale(VMul(material.emissive_color, throughput), -EmissiveGain)

\* `material.emissive_color * throughput * 5.0`, the amount added to color
TraceHitColor(material, throughput) ==
    VScale(VMul(material.emissive_color, throughput), EmissiveGain)

\* `throughput *= material.diffuse_color`
TraceHitThroughput(material, throughput) == VMul(throughput, material.diffuse_color)

\* Hit::random_outgoing_ray: a ray from the hit point; the direction the two
\* random angles select is the input `direction`
RandomOutgoingRay(hit, direction) == Ray(hit.hit_point, hit.w, direction)

\* a guard that stops one level late
TraceTooDeepLate(depth, limit) == depth > limit + 1

\* the recursion guard `depth > self.recursion_depth`
TraceTooDeep(depth, limit) == depth > limit

\* the state of one trace call; material is the material of its hit
Frame(ray, depth, throughput) ==
    [ray |-> ray, depth |-> depth, throughput |-> throughput,
     color |-> InitialColor, pc |-> "entry", material |-> Material(ZERO, ZERO)]

\* the caller's frame after the hit: emission added, throughput attenuated
FrameAfterHit(f, material) ==
    [f EXCEPT !.color = VAdd(@, TraceHitColor(material, f.throughput)),
              !.throughput = TraceHitThroughput(material, f.throughput),
              !.pc = "wait",
              !.material = material]

\* the call stack after a hit: the caller's updated frame, and on top of it
\* the frame of `self.trace(&hit.random_outgoing_ray(mesh), depth + 1, throughput)`
TraceHitStack(stack, hit, mesh, direction) ==
    Append([stack EXCEPT ![Len(stack)] = FrameAfterHit(@, HitMaterial(hit, mesh))],
           Frame(RandomOutgoingRay(hit, direction), stack[Len(stack)].depth + 1,
                 TraceHitThroughput(HitMaterial(hit, mesh), stack[Len(stack)].throughput)))

Top == tr_stack[Len(tr_stack)]

SetTop(f) == [tr_stack EXCEPT ![Len(tr_stack)] = f]

TopIntersect == SceneIntersect(build, scene, Top.ray, TraceTMin, TraceTMax)

\* `if depth > self.recursion_depth { return Vec3A::ZERO; }`
TraceDepthExceeded ==
    /\ tr_pc = "run"
    /\ Top.pc = "entry"
    /\ TraceTooDeep(Top.depth, recursion_depth)
    /\ tr_stack' = SetTop([Top EXCEPT !.color = ZERO, !.pc = "ret"])
    /\ UNCHANGED <<tr_result, tr_pc, tr_intersects, tr_calls, tr_path, tr_missed>>
    /\ UNCHANGED <<envVars, extVars, chVars, ixVars, rdVars>>

\* scene.intersect returns None: the call returns its untouched color
TraceMiss ==
    /\ tr_pc = "run"
    /\ Top.pc = "entry"
    /\ ~TraceTooDeep(Top.depth, recursion_depth)
    /\ ~TopIntersect.some
    /\ tr_intersects' = tr_intersects + 1
    /\ tr_missed' = TRUE
    /\ tr_stack' = SetTop([Top EXCEPT !.pc = "ret"])
    /\ UNCHANGED <<tr_result, tr_pc, tr_calls, tr_path>>
    /\ UNCHANGED <<envVars, extVars, chVars, ixVars, rdVars>>

\* scene.intersect returns a hit: add the emission, attenuate the
\* throughput and call trace on a random outgoing ray
TraceHit ==
    /\ tr_pc = "run"
    /\ Top.pc = "entry"
    /\ ~TraceTooDeep(Top.depth, recursion_depth)
    /\ TopIntersect.some
    /\ \E direction \in Directions :
         /\ tr_stack' = TraceHitStack(tr_stack, TopIntersect.hit, scene.triangle_mesh, direction)
         /\ tr_path' = Append(tr_path, tr_stack'[Len(tr_stack)].material)
    /\ tr_intersects' = tr_intersects + 1
    /\ tr_calls' = tr_calls + 1
    /\ UNCHANGED <<tr_result, tr_pc, tr_missed>>
    /\ UNCHANGED <<envVars, extVars, chVars, ixVars, rdVars>>

\* a recursive call returns: `color += self.trace(...)`, then `color` is returned
TraceReturnToCaller ==
    /\ tr_pc = "run"
    /\ Top.pc = "ret"
    /\ Len(tr_stack) > 1
    /\ LET caller == tr_stack[Len(tr_stack) - 1]
       IN  tr_stack' = [SubSeq(tr_stack, 1, Len(tr_stack) - 1) EXCEPT
                           ![Len(tr_stack) - 1] =
                               [caller EXCEPT !.color = VAdd(@, Top.color), !.pc = "ret"]]
    /\ UNCHANGED <<tr_result, tr_pc, tr_intersects, tr_calls, tr_path, tr_missed>>
    /\ UNCHANGED <<envVars, extVars, chVars, ixVars, rdVars>>

\* the outermost call returns
TraceReturnResult ==
    /\ tr_pc = "run"
    /\ Top.pc = "ret"
    /\ Len(tr_stack) = 1
    /\ tr_result' = Top.color
    /\ tr_stack' = <<>>
    /\ tr_pc' = "done"
    /\ UNCHANGED <<tr_intersects, tr_calls, tr_path, tr_missed>>
    /\ UNCHANGED <<envVars, extVars, chVars, ixVars, rdVars>>

\* the objects of the scenes traced and rendered
TraceRanges == { <<0, 1>>, <<1, 1>>, <<3, 2>>, <<0, 0>> }

TraceScenesOf(b, mesh) ==
    { Scene(mesh, [i \in 1..Len(rs) |-> Object(b, "o", rs[i][1], rs[i][2], mesh)]) :
        rs \in SeqsUpTo(TraceRanges, MaxObjects) }

\* primary rays: from a camera position in any of the directions
PrimaryRays ==
    { Ray(o, 1, d) : o \in {<<0, 0, 0>>, <<0, 0, 4>>}, d \in Directions \cup {<<0, 1, 4>>} }

InitTrace ==
    /\ IdleClosest /\ IdleIntersect /\ IdleRender
    /\ IdleExt
    /\ build \in Builds
    /\ \E mesh \in Meshes : scene \in TraceScenesOf(build, mesh)
    /\ sample_count = 1
    /\ recursion_depth \in 0..MaxDepth
    /\ \E ray \in PrimaryRays : tr_stack = <<Frame(ray, 0, ONE)>>
    /\ tr_result = ZERO
    /\ tr_pc = "run"
    /\ tr_intersects = 0
    /\ tr_calls = 1
    /\ tr_path = <<>>
    /\ tr_missed = FALSE

NextTrace ==
    \/ TraceDepthExceeded
    \/ TraceMiss
    \/ TraceHit
    \/ TraceReturnToCaller
    \/ TraceReturnResult

SpecTrace == InitTrace /\ [][NextTrace]_vars

\* product of the diffuse colours of the hits before hit i of a path
RECURSIVE DiffuseBefore(_, _)
DiffuseBefore(path, i) ==
    IF i <= 1 THEN ONE ELSE VMul(DiffuseBefore(path, i - 1), path[i - 1].diffuse_color)

\* sum over the hits 1..n of 5 * emissive(h_i) * product of diffuse(h_j), j < i
RECURSIVE PathRadiance(_, _)
PathRadiance(path, n) ==
    IF n = 0 THEN ZERO
    ELSE VAdd(PathRadiance(path, n - 1),
              VScale(VMul(path[n].emissive_color, DiffuseBefore(path, n)), 5))

\* colour gathered by the active calls, or returned when the call is over
RECURSIVE StackColor(_, _)
StackColor(stack, n) ==
    IF n = 0 THEN ZERO ELSE VAdd(StackColor(stack, n - 1), stack[n].color)

PathColor == IF tr_pc = "done" THEN tr_result ELSE StackColor(tr_stack, Len(tr_stack))

AllDark(mesh) == \A i \in DOMAIN mesh.materials : mesh.materials[i].emissive_color = ZERO

\* number of active calls that have not reached their return
RECURSIVE Unreturned(_, _)
Unreturned(stack, n) ==
    IF n = 0 THEN 0
    ELSE Unreturned(stack, n - 1) + (IF stack[n].pc = "ret" THEN 0 ELSE 1)

\* a number every step of a trace call decreases
TraceMeasure ==
    3 * (recursion_depth + 2 - tr_calls) + Len(tr_stack) + Unreturned(tr_stack, Len(tr_stack))

\* C3: a call trace(ray, 0, ONE) makes at most recursion_depth + 1 calls of
\* scene.intersect and then returns: every step leaves the number of
\* scene.intersect calls within recursion_depth + 1, decreases a measure
\* that is never negative, and leaves the call returned or able to step.
C3_TraceIntersectBound ==
    [][ /\ tr_intersects' <= recursion_depth + 1
        /\ TraceMeasure' >= 0
        /\ TraceMeasure' < TraceMeasure
        /\ (tr_pc' = "run" =>
               /\ Len(tr_stack') >= 1
               /\ tr_stack'[Len(tr_stack')].pc \in {"entry", "ret"}) ]_vars

\* with recursion_depth = 1 the call returned after the primary hit and one bounce
C3_Witness ==
    /\ tr_pc = "done"
    /\ recursion_depth = 1
    /\ tr_intersects = 2
    /\ Len(tr_path) = 2

\* C7: trace returns the sum over the hits h_i of the path of
\* 5 * emissive(h_i) * product over j < i of diffuse(h_j), and the path has
\* at most recursion_depth + 1 hits.
C7_TraceReturnsPathRadiance ==
    tr_pc = "done" =>
        /\ tr_result = PathRadiance(tr_path, Len(tr_path))
        /\ Len(tr_path) <= recursion_depth + 1

\* a second hit that emits, behind a first hit whose diffuse colour is not white
C7_Witness ==
    /\ tr_pc = "done"
    /\ Len(tr_path) >= 2
    /\ tr_path[1].diffuse_color # ONE
    /\ tr_path[1].emissive_color # ZERO
    /\ tr_path[2].emissive_color # ZERO
    /\ tr_result # VScale(tr_path[1].emissive_color, 5)

\* C8: the trace call that finds no hit returns (0,0,0); neither it nor
\* anything after it changes the colour of the path, and no trace or
\* scene.intersect call follows it.
C8_MissReturnsBlackAndStops ==
    [][ /\ (~tr_missed /\ tr_missed') =>
              /\ tr_stack'[Len(tr_stack')].pc = "ret"
              /\ tr_stack'[Len(tr_stack')].color = ZERO
              /\ PathColor' = PathColor
              /\ tr_calls' = tr_calls
        /\ tr_missed =>
              /\ tr_intersects' = tr_intersects
              /\ tr_calls' = tr_calls
              /\ PathColor' = PathColor ]_vars

\* a miss at depth 1 or deeper, after a hit that emitted
C8_Witness ==
    /\ tr_pc = "done"
    /\ tr_missed
    /\ Len(tr_path) >= 1
    /\ tr_result # ZERO

\* C10: when every material of the mesh has emissive colour (0,0,0), every
\* trace call holds and returns the colour (0,0,0).
C10_NoEmissionNoLight ==
    AllDark(scene.triangle_mesh) =>
        /\ \A i \in DOMAIN tr_stack : tr_stack[i].color = ZERO
        /\ tr_result = ZERO

\* a path of two hits over a mesh without light sources
C10_Witness ==
    /\ tr_pc = "done"
    /\ AllDark(scene.triangle_mesh)
    /\ Len(tr_path) >= 2

----------------------------------------------------------------------------
(* SceneRenderer::render_pixel and SceneRenderer::vec3_to_rgb *)

\* the colours a call trace(ray, depth, throughput) can return, over all
\* directions the random outgoing rays can take
RECURSIVE TraceOutcomes(_, _, _, _, _, _)
RECURSIVE TraceOutcomesAfter(_, _, _, _, _, _)
TraceOutcomes(b, sc, limit, ray, depth, throughput) ==
    IF TraceTooDeep(depth, limit) THEN {ZERO}
    ELSE TraceOutcomesAfter(b, sc, limit,
             SceneIntersect(b, sc, ray, TraceTMin, TraceTMax), depth, throughput)

TraceOutcomesAfter(b, sc, limit, found, depth, throughput) ==
    IF ~found.some THEN {InitialColor}
    ELSE { VAdd(VAdd(InitialColor,
                     TraceHitColor(HitMaterial(found.hit, sc.triangle_mesh), throughput)),
                rest) :
           rest \in UNION { TraceOutcomes(b, sc, limit,
                                RandomOutgoingRay(found.hit, direction), depth + 1,
                                TraceHitThroughput(HitMaterial(found.hit, sc.triangle_mesh),
                                                   throughput)) :
                            direction \in Directions } }

\* Camera::get_jittered_ray: a ray from the camera position; the direction
\* the pixel, the jitter and the camera matrices select is one of Directions
CameraPosition == ZERO

CameraRays == { Ray(CameraPosition, 1, d) : d \in Directions }

\* the sums of k values of a set
RECURSIVE SumsOf(_, _)
SumsOf(values, k) ==
    IF k = 0 THEN {ZERO}
    ELSE { VAdd(a, rest) : a \in values, rest \in SumsOf(values, k - 1) }

\* SceneRenderer::render_pixel: the sum of sample_count traces, to be
\* divided by sample_count; a value is kept as [sum, n] for sum / n
RenderPixelOutcomes(b, sc, limit, samples) ==
    { [sum |-> v, n |-> samples] :
        v \in SumsOf(UNION { TraceOutcomes(b, sc, limit, ray, 0, ONE) : ray \in CameraRays },
                     samples) }

\* `(c * 255.0) as u8` for c = num / den: the cast truncates toward zero
\* and saturates at 0 and 255
Truncate(num, den) == IF num >= 0 THEN num \div den ELSE -((-num) \div den)

\* a cast that keeps the low eight bits
SaturateWrapping(q) == q % 256

Saturate(q) == IF q < 0 THEN 0 ELSE IF q > 255 THEN 255 ELSE q

\* SceneRenderer::vec3_to_rgb
vec3_to_rgb(color) ==
    << Saturate(Truncate(color.sum[1] * 255, color.n)),
       Saturate(Truncate(color.sum[2] * 255, color.n)),
       Saturate(Truncate(color.sum[3] * 255, color.n)) >>

----------------------------------------------------------------------------
(* SceneRenderer::render (scene/renderer.rs): the bridged pixel iterator,
   the worker threads, the image mutex and the progress counter *)

Workers == 1..NumWorkers

Black == <<0, 0, 0>>

\* `(0..width).cartesian_product(0..height)`: item k of the sequence, k >= 0
PixelAt(k, w, h) == <<k \div h, k % h>>

\* the pixels of the image
Grid(w, h) == (0..(w - 1)) \X (0..(h - 1))

\* the grid and the coordinates bordering it
Canvas(w, h) == (0..w) \X (0..h)

\* `width * height / 100`
UpdateCount(w, h) == (w * h) \div 100

\* the scenes rendered
RenderRanges == { <<>>, << <<0, 2>> >> }

RenderScenesOf(b, mesh) ==
    { Scene(mesh, [i \in 1..Len(rs) |-> Object(b, "o", rs[i][1], rs[i][2], mesh)]) :
        rs \in RenderRanges }

\* image sizes below and above a hundred pixels
SmallResolutions == { <<1, 1>>, <<2, 1>>, <<2, 2>> }
LargeResolutions == { <<10, 10>> }

\* the threads of the pool that run the closure; the others take no item
PoolSize(res) == IF res \in LargeResolutions THEN LargePool ELSE NumWorkers

\* Small images are rendered for every scene, a scene whose pixels have
\* several possible values with small settings; large images are rendered
\* with the largest settings, for the scenes whose pixels have one possible
\* value.
InitRender ==
    /\ IdleClosest /\ IdleIntersect /\ IdleTrace
    /\ IdleExt
    /\ build \in Builds
    /\ \E mesh \in Meshes : scene \in RenderScenesOf(build, mesh)
    /\ sample_count \in 1..MaxSamples
    /\ recursion_depth \in 0..MaxDepth
    /\ pixel_values = RenderPixelOutcomes(build, scene, recursion_depth, sample_count)
    /\ Cardinality(pixel_values) > 1 => sample_count + recursion_depth <= MaxSamples
    /\ \E res \in SmallResolutions \cup LargeResolutions :
          /\ width = res[1]
          /\ height = res[2]
          /\ res \in LargeResolutions =>
                 /\ sample_count = MaxSamples
                 /\ recursion_depth = MaxDepth
                 /\ Cardinality(pixel_values) = 1
    /\ update_count = UpdateCount(width, height)
    /\ progress = 0
    /\ image = [p \in Grid(width, height) |-> Black]
    /\ writes = [p \in Canvas(width, height) |-> 0]
    /\ poisoned = FALSE
    /\ lock_holder = NoWorker
    /\ iter_next = 0
    /\ w_pc = [w \in Workers |-> IF w <= PoolSize(<<width, height>>) THEN "next" ELSE "done"]
    /\ w_item = [w \in Workers |-> <<0, 0>>]
    /\ w_pixel = [w \in Workers |-> [sum |-> ZERO, n |-> 1]]
    /\ render_state = "running"

\* the bridged iterator hands its next item to the worker asking for it
TakeItem(w) ==
    /\ w_pc[w] = "next"
    /\ iter_next < width * height
    /\ w_item' = [w_item EXCEPT ![w] = PixelAt(iter_next, width, height)]
    /\ iter_next' = iter_next + 1
    /\ w_pc' = [w_pc EXCEPT ![w] = "render"]
    /\ UNCHANGED <<width, height, update_count, pixel_values, progress, image, writes, poisoned,
                   lock_holder, w_pixel, render_state>>
    /\ UNCHANGED <<envVars, extVars, chVars, ixVars, trVars>>

\* the iterator is exhausted: the worker's part of for_each ends
IterExhausted(w) ==
    /\ w_pc[w] = "next"
    /\ iter_next >= width * height
    /\ w_pc' = [w_pc EXCEPT ![w] = "done"]
    /\ UNCHANGED <<width, height, update_count, pixel_values, progress, image, writes, poisoned,
                   lock_holder, iter_next, w_item, w_pixel, render_state>>
    /\ UNCHANGED <<envVars, extVars, chVars, ixVars, trVars>>

\* a render_pixel that counts the samples down in the renderer itself
SampleCountCountedDown(n) == 0

\* render_pixel reads `self.sample_count` through `&self`: the renderer's
\* count after the call is the count before it
SampleCountAfterPixel(n) == n

\* `let pixel = self.render_pixel(x, y);`
RenderPixel(w) ==
    /\ w_pc[w] = "render"
    /\ \E v \in pixel_values : w_pixel' = [w_pixel EXCEPT ![w] = v]
    /\ w_pc' = [w_pc EXCEPT ![w] = "lock"]
    /\ sample_count' = SampleCountAfterPixel(sample_count)
    /\ UNCHANGED <<width, height, update_count, pixel_values, progress, image, writes, poisoned,
                   lock_holder, iter_next, w_item, render_state>>
    /\ UNCHANGED <<build, scene, recursion_depth, extVars, chVars, ixVars, trVars>>

\* `let mut image = image.lock().unwrap();` on a sound mutex
LockImage(w) ==
    /\ w_pc[w] = "lock"
    /\ lock_holder = NoWorker
    /\ ~poisoned
    /\ lock_holder' = w
    /\ w_pc' = [w_pc EXCEPT ![w] = "critical"]
    /\ UNCHANGED <<width, height, update_count, pixel_values, progress, image, writes, poisoned,
                   iter_next, w_item, w_pixel, render_state>>
    /\ UNCHANGED <<envVars, extVars, chVars, ixVars, trVars>>

\* `image.lock().unwrap()` on a poisoned mutex: unwrap panics
LockPoisoned(w) ==
    /\ w_pc[w] = "lock"
    /\ lock_holder = NoWorker
    /\ poisoned
    /\ w_pc' = [w_pc EXCEPT ![w] = "panicked"]
    /\ UNCHANGED <<width, height, update_count, pixel_values, progress, image, writes, poisoned,
                   lock_holder, iter_next, w_item, w_pixel, render_state>>
    /\ UNCHANGED <<envVars, extVars, chVars, ixVars, trVars>>

\* under the lock: put_pixel, fetch_add, `progress % update_count` with a
\* non-zero update_count, and the guard is dropped at the end of the closure;
\* the counter is incremented once per item, so it stays within
\* width * height and never wraps
WritePixel(w) ==
    /\ w_pc[w] = "critical"
    /\ update_count # 0
    /\ image' = [image EXCEPT ![w_item[w]] = vec3_to_rgb(w_pixel[w])]
    /\ writes' = [writes EXCEPT ![w_item[w]] = @ + 1]
    /\ progress' = progress + 1
    /\ lock_holder' = NoWorker
    /\ w_pc' = [w_pc EXCEPT ![w] = "next"]
    /\ UNCHANGED <<width, height, update_count, pixel_values, poisoned, iter_next, w_item, w_pixel,
                   render_state>>
    /\ UNCHANGED <<envVars, extVars, chVars, ixVars, trVars>>

\* under the lock: put_pixel, fetch_add, then `progress % update_count`
\* with update_count = 0 panics; unwinding drops the guard and poisons the
\* mutex
WritePixelPanic(w) ==
    /\ w_pc[w] = "critical"
    /\ update_count = 0
    /\ image' = [image EXCEPT ![w_item[w]] = vec3_to_rgb(w_pixel[w])]
    /\ writes' = [writes EXCEPT ![w_item[w]] = @ + 1]
    /\ progress' = progress + 1
    /\ poisoned' = TRUE
    /\ lock_holder' = NoWorker
    /\ w_pc' = [w_pc EXCEPT ![w] = "panicked"]
    /\ UNCHANGED <<width, height, update_count, pixel_values, iter_next, w_item, w_pixel, render_state>>
    /\ UNCHANGED <<envVars, extVars, chVars, ixVars, trVars>>

\* for_each ends without a panic: `image.into_inner().unwrap()` is returned
RenderReturn ==
    /\ render_state = "running"
    /\ \A w \in Workers : w_pc[w] = "done"
    /\ ~poisoned
    /\ render_state' = "returned"
    /\ UNCHANGED <<width, height, update_count, pixel_values, progress, image, writes, poisoned,
                   lock_holder, iter_next, w_pc, w_item, w_pixel>>
    /\ UNCHANGED <<envVars, extVars, chVars, ixVars, trVars>>

\* every worker has ended and one of them panicked: for_each resumes the
\* panic in the caller of render
RenderPanic ==
    /\ render_state = "running"
    /\ \A w \in Workers : w_pc[w] \in {"done", "panicked"}
    /\ \E w \in Workers : w_pc[w] = "panicked"
    /\ render_state' = "panicked"
    /\ UNCHANGED <<width, height, update_count, pixel_values, progress, image, writes, poisoned,
                   lock_holder, iter_next, w_pc, w_item, w_pixel>>
    /\ UNCHANGED <<envVars, extVars, chVars, ixVars, trVars>>

Next ==
    \/ \E w \in Workers : TakeItem(w)
    \/ \E w \in Workers : IterExhausted(w)
    \/ \E w \in Workers : RenderPixel(w)
    \/ \E w \in Workers : LockImage(w)
    \/ \E w \in Workers : LockPoisoned(w)
    \/ \E w \in Workers : WritePixel(w)
    \/ \E w \in Workers : WritePixelPanic(w)
    \/ RenderReturn
    \/ RenderPanic

Spec == InitRender /\ [][Next]_vars

----------------------------------------------------------------------------
(* Properties of SceneRenderer::render *)

RenderEnded == render_state \in {"returned", "panicked"}

\* C1: every pixel of the width x height grid is written to the image
\* exactly once by the time render ends, no coordinate outside the grid is
\* written, and no two workers work on or write the same pixel.
C1_EachPixelWrittenExactlyOnce ==
    /\ \A p \in Canvas(width, height) \ Grid(width, height) : writes[p] = 0
    /\ \A p \in Grid(width, height) : writes[p] <= 1
    /\ \A v, w \in Workers :
          (v # w /\ w_pc[v] \in {"render", "lock", "critical"}
                 /\ w_pc[w] \in {"render", "lock", "critical"}) => w_item[v] # w_item[w]
    /\ RenderEnded => \A p \in Grid(width, height) : writes[p] = 1

\* C2: for every scene and every resolution of at least 1 x 1, no worker
\* panics and render does not end in a panic; the image it returns has
\* width x height pixels.
C2_RenderCompletesWithoutPanic ==
    /\ render_state # "panicked"
    /\ \A w \in Workers : w_pc[w] # "panicked"
    /\ render_state = "returned" => DOMAIN image = Grid(width, height)

----------------------------------------------------------------------------
(* Renderer::to_image (renderer.rs) and SceneRenderer::vec3_to_rgb applied
   to drawn inputs *)

\* colours [sum, n] standing for sum / n per channel: channels below 0,
\* between two bytes, at and above 1.0, and far above 1.0
Palette ==
    << [sum |-> <<-510, 1020, 3>>, n |-> 510],
       [sum |-> <<1, 2, -1>>, n |-> 510],
       [sum |-> <<509, 510, 511>>, n |-> 510],
       [sum |-> <<130560, 0, 255>>, n |-> 510],
       [sum |-> <<1, 0, 2>>, n |-> 1],
       [sum |-> <<1, 2, 1>>, n |-> 3],
       [sum |-> <<254, 255, 256>>, n |-> 255],
       [sum |-> <<100, 200, 300>>, n |-> 255],
       [sum |-> <<-1, 7, 1>>, n |-> 2] >>

\* the buffer read back from the GPU: width * height colours
ToImageData(w, h, k) == [i \in 1..(w * h) |-> Palette[((i + k) % Len(Palette)) + 1]]

\* `width - y - 1` on u32 underflows
ToImageUnderflows(y, w) == w - y - 1 < 0

\* `(x + (width - y - 1) * width) as usize`; where the subtraction wrapped the
\* index is this negative number plus 2^32, beyond the end of every buffer
ToImageIndex(x, y, w, h) == x + (w - y - 1) * w

\* `data[index]` is inside the buffer
ToImageInBounds(index, data) == index >= 0 /\ index < Len(data)

\* `Rgb([(r * 255.0) as u8, (g * 255.0) as u8, (b * 255.0) as u8])`
ToImageRgb(c) ==
    << Saturate(Truncate(c.sum[1] * 255, c.n)),
       Saturate(Truncate(c.sum[2] * 255, c.n)),
       Saturate(Truncate(c.sum[3] * 255, c.n)) >>

\* the pixel the iterator of to_image is at
ToImageItem == PixelAt(ti_next, ti_width, ti_height)

InitToImage ==
    /\ IdleCore /\ IdleEmissive /\ IdleRayTracer /\ IdleParser /\ IdleMaterials /\ IdleObject /\ IdleTriangle /\ IdleCamera
    /\ overflow_checks \in BOOLEAN
    /\ ti_width \in 1..MaxSide
    /\ ti_height \in 1..MaxSide
    /\ \E k \in 0..1 : ti_data = ToImageData(ti_width, ti_height, k)
    /\ ti_image = [p \in Grid(ti_width, ti_height) |-> Black]
    /\ ti_next = 0
    /\ ti_read = <<>>
    /\ ti_pc = "run"
    /\ qz_color \in { Palette[i] : i \in DOMAIN Palette }
    /\ qz_rgb = <<0, 0, 0>>
    /\ qz_pc = "call"

\* SceneRenderer::vec3_to_rgb
Vec3ToRgbCall ==
    /\ qz_pc = "call"
    /\ qz_rgb' = vec3_to_rgb(qz_color)
    /\ qz_pc' = "done"
    /\ UNCHANGED <<overflow_checks, ti_width, ti_height, ti_data, ti_image, ti_next,
                   ti_read, ti_pc, qz_color>>
    /\ UNCHANGED tiOthers

\* to_image, one pixel: the index is inside the buffer and the pixel is put
ToImagePixel ==
    /\ ti_pc = "run"
    /\ ti_next < ti_width * ti_height
    /\ ~(overflow_checks /\ ToImageUnderflows(ToImageItem[2], ti_width))
    /\ ToImageInBounds(ToImageIndex(ToImageItem[1], ToImageItem[2], ti_width, ti_height),
                       ti_data)
    /\ ti_read' = ti_read @@
          (ToImageItem :> ToImageIndex(ToImageItem[1], ToImageItem[2], ti_width, ti_height))
    /\ ti_image' = [ti_image EXCEPT ![ToImageItem] =
          ToImageRgb(ti_data[ToImageIndex(ToImageItem[1], ToImageItem[2],
                                          ti_width, ti_height) + 1])]
    /\ ti_next' = ti_next + 1
    /\ UNCHANGED <<overflow_checks, ti_width, ti_height, ti_data, ti_pc,
                   qz_color, qz_rgb, qz_pc>>
    /\ UNCHANGED tiOthers

\* to_image, one pixel: `width - y - 1` underflows in a build that checks
\* overflow, which panics
ToImageUnderflow ==
    /\ ti_pc = "run"
    /\ ti_next < ti_width * ti_height
    /\ overflow_checks
    /\ ToImageUnderflows(ToImageItem[2], ti_width)
    /\ ti_pc' = "panicked"
    /\ UNCHANGED <<overflow_checks, ti_width, ti_height, ti_data, ti_image, ti_next,
                   ti_read, qz_color, qz_rgb, qz_pc>>
    /\ UNCHANGED tiOthers

\* to_image, one pixel: `data[index]` is outside the buffer, which panics
ToImageOutOfBounds ==
    /\ ti_pc = "run"
    /\ ti_next < ti_width * ti_height
    /\ ~(overflow_checks /\ ToImageUnderflows(ToImageItem[2], ti_width))
    /\ ~ToImageInBounds(ToImageIndex(ToImageItem[1], ToImageItem[2], ti_width, ti_height),
                        ti_data)
    /\ ti_read' = ti_read @@
          (ToImageItem :> ToImageIndex(ToImageItem[1], ToImageItem[2], ti_width, ti_height))
    /\ ti_pc' = "panicked"
    /\ UNCHANGED <<overflow_checks, ti_width, ti_height, ti_data, ti_image, ti_next,
                   qz_color, qz_rgb, qz_pc>>
    /\ UNCHANGED tiOthers

\* to_image returns the image after the last pixel
ToImageReturn ==
    /\ ti_pc = "run"
    /\ ti_next >= ti_width * ti_height
    /\ ti_pc' = "returned"
    /\ UNCHANGED <<overflow_checks, ti_width, ti_height, ti_data, ti_image, ti_next,
                   ti_read, qz_color, qz_rgb, qz_pc>>
    /\ UNCHANGED tiOthers

NextToImage ==
    \/ Vec3ToRgbCall
    \/ ToImagePixel
    \/ ToImageUnderflow
    \/ ToImageOutOfBounds
    \/ ToImageReturn

SpecToImage == InitToImage /\ [][NextToImage]_vars

\* floor(c * 255) clamped to 0..255, for channel i of the colour c = sum / n
ClampedFloor(c, i) ==
    IF (c.sum[i] * 255) \div c.n < 0 THEN 0
    ELSE IF (c.sum[i] * 255) \div c.n > 255 THEN 255
    ELSE (c.sum[i] * 255) \div c.n

\* the pixels to_image has put
PixelsPut == { p \in DOMAIN ti_read : ToImageInBounds(ti_read[p], ti_data) }

\* C11: every byte vec3_to_rgb returns and every byte to_image puts is
\* clamp(floor(c * 255), 0, 255) of the channel c it is made from.
C11_BytesAreClampedFloor ==
    /\ qz_pc = "done" => \A i \in 1..3 : qz_rgb[i] = ClampedFloor(qz_color, i)
    /\ \A p \in PixelsPut :
          \A i \in 1..3 : ti_image[p][i] = ClampedFloor(ti_data[ti_read[p] + 1], i)

\* a colour with a negative channel and a channel of 2.0 was converted, and
\* an image was converted whole
C11_Witness ==
    /\ qz_pc = "done"
    /\ qz_color.sum[1] < 0 /\ qz_rgb[1] = 0
    /\ qz_color.sum[2] * 255 >= 510 * qz_color.n /\ qz_rgb[2] = 255
    /\ ti_pc = "returned"
    /\ \E p \in PixelsPut : ti_image[p] # Black

\* C17: for every pixel (x, y) to_image reads buffer index
\* x + (H - 1 - y) * W, the index lies in [0, W * H), and to_image does not
\* panic, for every W >= 1 and H >= 1.
C17_ToImageReadsFlippedRow ==
    /\ ti_pc # "panicked"
    /\ \A p \in DOMAIN ti_read :
          /\ ti_read[p] = p[1] + (ti_height - 1 - p[2]) * ti_width
          /\ ti_read[p] >= 0
          /\ ti_read[p] < ti_width * ti_height

----------------------------------------------------------------------------
(* SceneRenderer::render_pixel under one sequence of random numbers
   (scene/renderer.rs): the pixel is rendered for a scene and for the same
   scene with one emissive channel raised; both renders draw the same numbers *)

\* emissive colours of this part are given in units of 1 / EmissiveUnit; trace
\* is linear in them, so its sums are in the same unit
EmissiveUnit == 20

DirectionList ==
    << <<0, 0, 1>>, <<0, 0, -1>>, <<1, 0, 0>>, <<-1, 0, 0>>, <<0, 1, 0>>, <<0, -1, 0>> >>

Seeds == 0..(Len(DirectionList) * Len(DirectionList) - 1)

\* the direction the i-th draw of the generator seeded with seed selects
Rnd(seed, i) ==
    DirectionList[(((seed % Len(DirectionList)) + i * (seed \div Len(DirectionList)))
                       % Len(DirectionList)) + 1]

\* SceneRenderer::trace with the draws made explicit: the result is the
\* colour and the number of draws made so far
RECURSIVE TraceWith(_, _, _, _, _, _, _, _)
RECURSIVE TraceWithAfter(_, _, _, _, _, _, _, _)
TraceWith(b, sc, limit, ray, depth, throughput, seed, drawn) ==
    IF TraceTooDeep(depth, limit) THEN [color |-> ZERO, drawn |-> drawn]
    ELSE TraceWithAfter(b, sc, limit,
             SceneIntersect(b, sc, ray, TraceTMin, TraceTMax), depth, throughput,
             seed, drawn)

\* `color += self.trace(..)` and the return of the colour
TraceWithReturn(color, rest) ==
    [color |-> VAdd(color, rest.color), drawn |-> rest.drawn]

TraceWithAfter(b, sc, limit, found, depth, throughput, seed, drawn) ==
    IF ~found.some THEN [color |-> InitialColor, drawn |-> drawn]
    ELSE TraceWithReturn(
             VAdd(InitialColor,
                  TraceHitColor(HitMaterial(found.hit, sc.triangle_mesh), throughput)),
             TraceWith(b, sc, limit,
                 RandomOutgoingRay(found.hit, Rnd(seed, drawn)), depth + 1,
                 TraceHitThroughput(HitMaterial(found.hit, sc.triangle_mesh), throughput),
                 seed, drawn + 1))

\* the sum of the traces of the samples left; each sample draws its camera
\* ray (Camera::get_jittered_ray), then traces it
RECURSIVE RenderSamplesWith(_, _, _, _, _, _)
RECURSIVE RenderSamplesAfter(_, _, _, _, _, _)
RenderSamplesWith(b, sc, limit, left, seed, drawn) ==
    IF left = 0 THEN ZERO
    ELSE RenderSamplesAfter(b, sc, limit, left, seed,
             TraceWith(b, sc, limit, Ray(CameraPosition, 1, Rnd(seed, drawn)),
                       0, ONE, seed, drawn + 1))

RenderSamplesAfter(b, sc, limit, left, seed, traced) ==
    VAdd(traced.color, RenderSamplesWith(b, sc, limit, left - 1, seed, traced.drawn))

\* vec3_to_rgb of a sum of samples traces
PixelWith(sum, samples) ==
    [sum |-> sum, rgb |-> vec3_to_rgb([sum |-> sum, n |-> samples * EmissiveUnit])]

\* render_pixel followed by vec3_to_rgb
RenderPixelWith(b, sc, limit, samples, seed) ==
    PixelWith(RenderSamplesWith(b, sc, limit, samples, seed, 0), samples)

\* the scene with channel c of the emissive colour of material m (an index
\* from 0) raised by delta
RaiseEmissive(sc, m, c, delta) ==
    [sc EXCEPT !.triangle_mesh.materials[m + 1].emissive_color[c] = @ + delta]

Deltas == {1, 7}

InitEmissive ==
    /\ IdleClosest /\ IdleIntersect /\ IdleTrace /\ IdleRender
    /\ IdleToImage /\ IdleRayTracer /\ IdleParser /\ IdleMaterials /\ IdleObject /\ IdleTriangle /\ IdleCamera
    /\ build \in Builds
    /\ \E mesh \in Meshes : scene \in RenderScenesOf(build, mesh)
    /\ sample_count \in 1..MaxSamples
    /\ recursion_depth \in 0..MaxDepth
    /\ mo_material \in 0..(Len(scene.triangle_mesh.materials) - 1)
    /\ mo_channel \in 1..3
    /\ mo_delta \in Deltas
    /\ mo_seed \in Seeds
    /\ mo_base = <<>>
    /\ mo_raised = <<>>
    /\ mo_pc = "call"

\* the two renders of the pixel
RenderTwice ==
    /\ mo_pc = "call"
    /\ mo_base' = RenderPixelWith(build, scene, recursion_depth, sample_count, mo_seed)
    /\ mo_raised' = RenderPixelWith(build,
                         RaiseEmissive(scene, mo_material, mo_channel, mo_delta),
                         recursion_depth, sample_count, mo_seed)
    /\ mo_pc' = "done"
    /\ UNCHANGED <<mo_material, mo_channel, mo_delta, mo_seed>>
    /\ UNCHANGED moOthers

NextEmissive == RenderTwice

SpecEmissive == InitEmissive /\ [][NextEmissive]_vars

\* C12: with the random numbers held fixed, raising one channel of one
\* material's emissive colour never lowers that channel of the pixel,
\* neither of the value render_pixel returns nor of the byte written
C12_RaisedEmissiveNeverDarkens ==
    mo_pc = "done" =>
        /\ mo_raised.sum[mo_channel] >= mo_base.sum[mo_channel]
        /\ mo_raised.rgb[mo_channel] >= mo_base.rgb[mo_channel]

\* a render where the raised channel made the byte larger, both bytes
\* strictly between black and full
C12_Witness ==
    /\ mo_pc = "done"
    /\ 0 < mo_base.rgb[mo_channel]
    /\ mo_base.rgb[mo_channel] < mo_raised.rgb[mo_channel]
    /\ mo_raised.rgb[mo_channel] < 255

----------------------------------------------------------------------------
(* RayTracer (prelude.rs): the builder's setters, render and render_save.
   f32 settings are kept in tenths: 39.6 is 396, 0.1 is 1, 1000.0 is 10000 *)

MaxCalls == 3

OptNone == [set |-> FALSE]
OptSome(v) == [set |-> TRUE, value |-> v]

\* an unwrap_or that drops the value that was set
unwrap_or_ignoring(option, default) == default

\* Option::unwrap_or
unwrap_or(option, default) == IF option.set THEN option.value ELSE default

\* CameraBuilder::new
CameraBuilderNew ==
    [position |-> OptNone, target |-> OptNone, z_near |-> OptNone, z_far |-> OptNone,
     vertical_fov |-> OptNone]

with_position(cb, p) == [cb EXCEPT !.position = OptSome(p)]
with_target(cb, p) == [cb EXCEPT !.target = OptSome(p)]
with_z_near(cb, z) == [cb EXCEPT !.z_near = OptSome(z)]
with_z_far(cb, z) == [cb EXCEPT !.z_far = OptSome(z)]
with_vertical_fov(cb, fov) == [cb EXCEPT !.vertical_fov = OptSome(fov)]

\* a default position at the origin
OriginPosition == <<0, 0, 0>>

\* the defaults of CameraBuilder::build
DefaultVerticalFov == 396
DefaultZNear == 1
DefaultZFar == 10000
DefaultPosition == <<0, 10, 0>>
DefaultTarget == <<0, 0, 0>>

\* CameraBuilder::build: the values the projection and view matrices and
\* the position of CameraData are computed from
CameraBuilderBuild(cb, image_size) ==
    [vertical_fov |-> unwrap_or(cb.vertical_fov, DefaultVerticalFov),
     image_size |-> image_size,
     z_near |-> unwrap_or(cb.z_near, DefaultZNear),
     z_far |-> unwrap_or(cb.z_far, DefaultZFar),
     position |-> unwrap_or(cb.position, DefaultPosition),
     target |-> unwrap_or(cb.target, DefaultTarget)]

\* RayTracer::new
RayTracerNew ==
    [camera_builder |-> CameraBuilderNew, directory |-> OptNone, obj_file |-> OptNone,
     sample_count |-> OptNone, recursion_depth |-> OptNone, image_resolution |-> OptNone]

\* the defaults of RayTracer::render
DefaultResolution == <<800, 600>>
DefaultSampleCount == 1
DefaultRecursionDepth == 1

\* a guard that lets one missing input pass
MissingBothInputs(self) == ~self.directory.set /\ ~self.obj_file.set

\* `self.directory.is_none() || self.obj_file.is_none()`
MissingInput(self) == ~self.directory.set \/ ~self.obj_file.set

\* the arguments the setters are called with
Directories == {"scenes", "models"}
ObjFiles == {"a.obj", "b.obj"}
SetResolutions == { <<640, 480>>, <<2, 3>> }
SetCounts == {4, 16}
SetPositions == { <<0, 0, 0>>, <<10, 20, 30>> }
SetTargets == { <<0, 0, 10>>, <<0, 10, 0>> }
SetFovs == {450, 900}
SetClippings == { <<5, 1000>>, <<2, 500>> }

Options ==
    {"directory", "obj_file", "resolution", "camera_position", "camera_target",
     "camera_vertical_fov", "camera_clipping", "sample_count", "recursion_depth"}

\* the log after a call that passed argument arg for option
Logged(log, option, arg) ==
    [log EXCEPT ![option] = [times |-> @.times + 1, last |-> arg]]

InitRayTracer ==
    /\ IdleCore /\ IdleToImage /\ IdleEmissive /\ IdleParser /\ IdleMaterials /\ IdleObject /\ IdleTriangle /\ IdleCamera
    /\ rt_self = RayTracerNew
    /\ rt_calls = 0
    /\ rt_log = [o \in Options |-> [times |-> 0, last |-> <<>>]]
    /\ rt_entry = "none"
    /\ rt_pc = "builder"
    /\ rt_read = FALSE
    /\ rt_built = FALSE
    /\ rt_drawn = FALSE
    /\ rt_used = <<>>

\* what every setter leaves alone
SetterCalled ==
    /\ rt_pc = "builder"
    /\ rt_calls < MaxCalls
    /\ rt_calls' = rt_calls + 1
    /\ UNCHANGED <<rt_entry, rt_pc, rt_read, rt_built, rt_drawn, rt_used>>
    /\ UNCHANGED rtOthers

RayTracerDirectory(d) ==
    /\ SetterCalled
    /\ rt_self' = [rt_self EXCEPT !.directory = OptSome(d)]
    /\ rt_log' = Logged(rt_log, "directory", d)

RayTracerObjFile(f) ==
    /\ SetterCalled
    /\ rt_self' = [rt_self EXCEPT !.obj_file = OptSome(f)]
    /\ rt_log' = Logged(rt_log, "obj_file", f)

RayTracerFile(d, f) ==
    /\ SetterCalled
    /\ rt_self' = [rt_self EXCEPT !.directory = OptSome(d), !.obj_file = OptSome(f)]
    /\ rt_log' = Logged(Logged(rt_log, "directory", d), "obj_file", f)

RayTracerResolution(res) ==
    /\ SetterCalled
    /\ rt_self' = [rt_self EXCEPT !.image_resolution = OptSome(res)]
    /\ rt_log' = Logged(rt_log, "resolution", res)

RayTracerCameraPosition(p) ==
    /\ SetterCalled
    /\ rt_self' = [rt_self EXCEPT !.camera_builder = with_position(@, p)]
    /\ rt_log' = Logged(rt_log, "camera_position", p)

RayTracerCameraTarget(p) ==
    /\ SetterCalled
    /\ rt_self' = [rt_self EXCEPT !.camera_builder = with_target(@, p)]
    /\ rt_log' = Logged(rt_log, "camera_target", p)

RayTracerCameraVerticalFov(fov) ==
    /\ SetterCalled
    /\ rt_self' = [rt_self EXCEPT !.camera_builder = with_vertical_fov(@, fov)]
    /\ rt_log' = Logged(rt_log, "camera_vertical_fov", fov)

RayTracerCameraClipping(near, far) ==
    /\ SetterCalled
    /\ rt_self' = [rt_self EXCEPT !.camera_builder = with_z_near(with_z_far(@, far), near)]
    /\ rt_log' = Logged(rt_log, "camera_clipping", <<near, far>>)

RayTracerSampleCount(n) ==
    /\ SetterCalled
    /\ rt_self' = [rt_self EXCEPT !.sample_count = OptSome(n)]
    /\ rt_log' = Logged(rt_log, "sample_count", n)

RayTracerRecursionDepth(n) ==
    /\ SetterCalled
    /\ rt_self' = [rt_self EXCEPT !.recursion_depth = OptSome(n)]
    /\ rt_log' = Logged(rt_log, "recursion_depth", n)

\* what the steps of render leave alone
RenderStep == UNCHANGED <<rt_self, rt_calls, rt_log>> /\ UNCHANGED rtOthers

\* render or render_save is called; render_save begins by calling render
RayTracerRenderCalled(entry) ==
    /\ rt_pc = "builder"
    /\ rt_entry' = entry
    /\ rt_pc' = "check"
    /\ UNCHANGED <<rt_read, rt_built, rt_drawn, rt_used>>
    /\ RenderStep

\* the panic "Directory and obj file must be specified"
RayTracerRenderMissingInput ==
    /\ rt_pc = "check"
    /\ MissingInput(rt_self)
    /\ rt_pc' = "config_error"
    /\ UNCHANGED <<rt_entry, rt_read, rt_built, rt_drawn, rt_used>>
    /\ RenderStep

\* parse_obj reads the OBJ and MTL files
RayTracerRenderParseObj ==
    /\ rt_pc = "check"
    /\ ~MissingInput(rt_self)
    /\ rt_read' = TRUE
    /\ rt_pc' = "parsed"
    /\ UNCHANGED <<rt_entry, rt_built, rt_drawn, rt_used>>
    /\ RenderStep

\* parse_obj panics: a file cannot be read or parsed
RayTracerRenderParsePanic ==
    /\ rt_pc = "check"
    /\ ~MissingInput(rt_self)
    /\ rt_read' = TRUE
    /\ rt_pc' = "parse_error"
    /\ UNCHANGED <<rt_entry, rt_built, rt_drawn, rt_used>>
    /\ RenderStep

\* the settings are read, the GPU data, the camera and the render data set up
RayTracerRenderSetUp ==
    /\ rt_pc = "parsed"
    /\ rt_used' =
           [resolution |-> unwrap_or(rt_self.image_resolution, DefaultResolution),
            samples |-> unwrap_or(rt_self.sample_count, DefaultSampleCount),
            bounces |-> unwrap_or(rt_self.recursion_depth, DefaultRecursionDepth),
            camera |-> CameraBuilderBuild(rt_self.camera_builder,
                           unwrap_or(rt_self.image_resolution, DefaultResolution))]
    /\ rt_built' = TRUE
    /\ rt_pc' = "set_up"
    /\ UNCHANGED <<rt_entry, rt_read, rt_drawn>>
    /\ RenderStep

\* Renderer::render returns the image
RayTracerRenderReturn ==
    /\ rt_pc = "set_up"
    /\ rt_drawn' = TRUE
    /\ rt_pc' = IF rt_entry = "render_save" THEN "save" ELSE "returned"
    /\ UNCHANGED <<rt_entry, rt_read, rt_built, rt_used>>
    /\ RenderStep

\* Renderer::render returns an error and `unwrap` panics
RayTracerRenderError ==
    /\ rt_pc = "set_up"
    /\ rt_pc' = "render_error"
    /\ UNCHANGED <<rt_entry, rt_read, rt_built, rt_drawn, rt_used>>
    /\ RenderStep

\* render_save: `image.save(file_path).unwrap()`
RayTracerRenderSave(ok) ==
    /\ rt_pc = "save"
    /\ rt_pc' = IF ok THEN "saved" ELSE "save_error"
    /\ UNCHANGED <<rt_entry, rt_read, rt_built, rt_drawn, rt_used>>
    /\ RenderStep

NextRayTracer ==
    \/ \E d \in Directories : RayTracerDirectory(d)
    \/ \E f \in ObjFiles : RayTracerObjFile(f)
    \/ \E d \in Directories, f \in ObjFiles : RayTracerFile(d, f)
    \/ \E res \in SetResolutions : RayTracerResolution(res)
    \/ \E p \in SetPositions : RayTracerCameraPosition(p)
    \/ \E p \in SetTargets : RayTracerCameraTarget(p)
    \/ \E fov \in SetFovs : RayTracerCameraVerticalFov(fov)
    \/ \E c \in SetClippings : RayTracerCameraClipping(c[1], c[2])
    \/ \E n \in SetCounts : RayTracerSampleCount(n)
    \/ \E n \in SetCounts : RayTracerRecursionDepth(n)
    \/ \E entry \in {"render", "render_save"} : RayTracerRenderCalled(entry)
    \/ RayTracerRenderMissingInput
    \/ RayTracerRenderParseObj
    \/ RayTracerRenderParsePanic
    \/ RayTracerRenderSetUp
    \/ RayTracerRenderReturn
    \/ RayTracerRenderError
    \/ \E ok \in BOOLEAN : RayTracerRenderSave(ok)

SpecRayTracer == InitRayTracer /\ [][NextRayTracer]_vars

\* C13: render and render_save on a RayTracer whose directory or obj_file
\* was never set fail with the configuration error, and no file is read, no
\* scene is set up and no pixel is rendered, whatever else was set
C13_MissingInputFailsFirst ==
    (rt_pc \notin {"builder", "check"}
       /\ (rt_log["directory"].times = 0 \/ rt_log["obj_file"].times = 0))
    => /\ rt_pc = "config_error"
       /\ ~rt_read /\ ~rt_built /\ ~rt_drawn

\* render_save failed so on a builder with the obj file and other options set
C13_Witness ==
    /\ rt_pc = "config_error"
    /\ rt_entry = "render_save"
    /\ rt_log["directory"].times = 0
    /\ rt_log["obj_file"].times = 1
    /\ rt_log["resolution"].times = 1
    /\ rt_log["camera_position"].times = 1

\* the value render uses for an option: the last argument of its setter, or
\* the default when the setter was never called
LastOr(option, default) ==
    IF rt_log[option].times = 0 THEN default ELSE rt_log[option].last

\* C18: render uses 800x600, 1 sample and recursion depth 1 for the options
\* never set, and for an option set once or several times the value of the
\* last call of its setter
C18_DefaultsAndLastSetterWins ==
    rt_built =>
        /\ rt_used.resolution = LastOr("resolution", <<800, 600>>)
        /\ rt_used.samples = LastOr("sample_count", 1)
        /\ rt_used.bounces = LastOr("recursion_depth", 1)

\* a render after resolution was set twice and the counts never
C18_Witness ==
    /\ rt_pc = "returned"
    /\ rt_log["resolution"].times = 2
    /\ rt_used.resolution = <<2, 3>>
    /\ rt_used.samples = 1
    /\ rt_used.bounces = 1

----------------------------------------------------------------------------
(* The OBJ parsers. parse_obj (parser/mod.rs) parses faces with
   parse_triangles (parser/triangle_parser.rs) and computes the bounding
   boxes itself; get_objects (scene/parser.rs) parses faces with
   parse_triangle_indices (scene/object/parser.rs) and builds each Object,
   whose bounding box reads every triangle through TriangleMesh::get_triangle *)

MaxLines == 4

\* the lines of an OBJ file that the parsers tell apart
ObjectLine(name) == [kind |-> "o", name |-> name, groups |-> <<>>]
MaterialLine(name) == [kind |-> "usemtl", name |-> name, groups |-> <<>>]
FaceLine(g1, g2, g3) == [kind |-> "f", name |-> "", groups |-> <<g1, g2, g3>>]

\* vertex index groups as written: `a/b/c` and `a//c`
PosTexNorm(a, b, c) == [form |-> "a/b/c", pos |-> a, tex |-> b, norm |-> c]
PosNorm(a, c) == [form |-> "a//c", pos |-> a, tex |-> 0, norm |-> c]

\* the `v` and `vn` lines of the file
ParsedPositions == SubSeq(Positions, 1, 3)
ParsedNormals == Normals

\* faces: the two of the parser tests (the second with a 0 in a normal that
\* is not read), one whose normal and one whose position is out of range
FaceLines ==
    { FaceLine(PosTexNorm(1, 1, 1), PosTexNorm(2, 1, 1), PosTexNorm(3, 1, 1)),
      FaceLine(PosTexNorm(1, 1, 1), PosTexNorm(2, 1, 0), PosTexNorm(3, 1, 1)),
      FaceLine(PosNorm(3, 3), PosNorm(1, 1), PosNorm(2, 2)),
      FaceLine(PosTexNorm(1, 1, 2), PosTexNorm(2, 1, 1), PosTexNorm(4, 1, 1)) }

ObjLines ==
    {ObjectLine("A"), ObjectLine("B"), MaterialLine("M"), MaterialLine("N")} \cup FaceLines

\* material maps: with and without the material N
MaterialMaps == { [n \in {"M", "N"} |-> IF n = "M" THEN 0 ELSE 1], [n \in {"M"} |-> 0] }

\* HashMap::insert(name, String::new())
MapInsertEmpty(map, name) ==
    [n \in DOMAIN map \cup {name} |-> IF n = name THEN <<>> ELSE map[n]]

\* the for_each of extract_parts_obj from line i on; `get_mut(..).unwrap()`
\* panics while no object was named
RECURSIVE ExtractScan(_, _, _, _)
ExtractScan(lines, i, current_object, object_map) ==
    IF i > Len(lines) THEN [status |-> "ok", object_map |-> object_map]
    ELSE IF lines[i].kind = "o"
         THEN ExtractScan(lines, i + 1, lines[i].name,
                          MapInsertEmpty(object_map, lines[i].name))
    ELSE IF current_object \notin DOMAIN object_map
         THEN [status |-> "panic", object_map |-> object_map]
    ELSE ExtractScan(lines, i + 1, current_object,
             [object_map EXCEPT ![current_object] = Append(@, lines[i])])

extract_parts_obj(lines) == ExtractScan(lines, 1, "", [n \in {} |-> <<>>])

\* TriangleData / TriangleIndex
TriangleData(v0, v1, v2, normal_index, material_index) ==
    [vertex_indices |-> <<v0, v1, v2>>, normal_index |-> normal_index,
     material_index |-> material_index]

\* a lookup that falls back to the first material
MaterialLookupOrFirst(material_map, name) ==
    [found |-> TRUE, index |-> IF name \in DOMAIN material_map THEN material_map[name] ELSE 0]

\* `material_map.get(name)`
MaterialLookup(material_map, name) ==
    IF name \in DOMAIN material_map THEN [found |-> TRUE, index |-> material_map[name]]
    ELSE [found |-> FALSE, index |-> 0]

\* `num - 1` on an unsigned number panics on 0 when overflow is checked
DecrementPanics(num, checks) == num = 0 /\ checks

\* `num - 1`; the wrapped result 2^32 - 1 is written -1
Decrement(num) == num - 1

\* the numbers of a group that usize_decrement is applied to
GroupNumbers(g) == IF g.form = "a/b/c" THEN {g.pos, g.tex, g.norm} ELSE {g.pos, g.norm}

\* parse_triangle_index_data panics: some number of some face is 0
FaceParsePanics(lines, checks) ==
    \E i \in 1..Len(lines) : \E k \in 1..Len(lines[i].groups) :
        \E num \in GroupNumbers(lines[i].groups[k]) : DecrementPanics(num, checks)

\* convert_to_triangle: the groups must have one form
convert_to_triangle(g, material_index) ==
    IF g[1].form = g[2].form /\ g[2].form = g[3].form
    THEN [status |-> "ok",
          triangle |-> TriangleData(Decrement(g[1].pos), Decrement(g[2].pos),
                                    Decrement(g[3].pos), Decrement(g[1].norm),
                                    material_index)]
    ELSE [status |-> "panic", triangle |-> <<>>]

\* the for_each of parse_triangles from item i on
RECURSIVE ParseTrianglesScan(_, _, _, _, _)
ParseTrianglesScan(lines, material_map, i, current_material_index, triangle_indices) ==
    IF i > Len(lines) THEN [status |-> "ok", triangles |-> triangle_indices, error |-> ""]
    ELSE IF lines[i].kind = "usemtl"
         THEN IF MaterialLookup(material_map, lines[i].name).found
              THEN ParseTrianglesScan(lines, material_map, i + 1,
                       MaterialLookup(material_map, lines[i].name).index, triangle_indices)
              ELSE [status |-> "panic", triangles |-> <<>>, error |-> "Material not found"]
    ELSE IF convert_to_triangle(lines[i].groups, current_material_index).status = "ok"
         THEN ParseTrianglesScan(lines, material_map, i + 1, current_material_index,
                  Append(triangle_indices,
                         convert_to_triangle(lines[i].groups,
                                             current_material_index).triangle))
    ELSE [status |-> "panic", triangles |-> <<>>, error |-> "Invalid vertex index group"]

\* parse_triangles (parser/triangle_parser.rs): all lines are parsed, every
\* number decremented, before the materials are looked up
parse_triangles(lines, material_map, checks) ==
    IF FaceParsePanics(lines, checks)
    THEN [status |-> "panic", triangles |-> <<>>, error |-> "attempt to subtract with overflow"]
    ELSE ParseTrianglesScan(lines, material_map, 1, 0, <<>>)

\* parse_triangle_index (scene/object/parser.rs): the three positions and
\* the normal of the first group are read and decremented
ParseTriangleIndexPanics(g, checks) ==
    \E num \in {g[1].pos, g[2].pos, g[3].pos, g[1].norm} : DecrementPanics(num, checks)

parse_triangle_index(g, material_index) ==
    TriangleData(Decrement(g[1].pos), Decrement(g[2].pos), Decrement(g[3].pos),
                 Decrement(g[1].norm), material_index)

\* the loop of parse_triangle_indices from line i on
RECURSIVE ParseTriangleIndicesScan(_, _, _, _, _, _)
ParseTriangleIndicesScan(lines, material_map, checks, i, material_index, triangle_indices) ==
    IF i > Len(lines) THEN [status |-> "ok", triangles |-> triangle_indices, error |-> ""]
    ELSE IF lines[i].kind = "usemtl"
         THEN IF MaterialLookup(material_map, lines[i].name).found
              THEN ParseTriangleIndicesScan(lines, material_map, checks, i + 1,
                       MaterialLookup(material_map, lines[i].name).index, triangle_indices)
              ELSE [status |-> "panic", triangles |-> <<>>, error |-> "Material not found"]
    ELSE IF ParseTriangleIndexPanics(lines[i].groups, checks)
         THEN [status |-> "panic", triangles |-> <<>>,
               error |-> "attempt to subtract with overflow"]
    ELSE ParseTriangleIndicesScan(lines, material_map, checks, i + 1, material_index,
             Append(triangle_indices, parse_triangle_index(lines[i].groups, material_index)))

parse_triangle_indices(lines, material_map, checks) ==
    ParseTriangleIndicesScan(lines, material_map, checks, 1, 0, <<>>)

\* the triangle parser of a pipeline
TriangleParser(pipeline, lines, material_map, checks) ==
    IF pipeline = "parse_obj" THEN parse_triangles(lines, material_map, checks)
    ELSE parse_triangle_indices(lines, material_map, checks)

\* an index of the unsigned type is inside a collection of length len
IndexInside(index, len) == 0 <= index /\ index < len

\* extract_min_max_pos: `vertex_positions[triangle_data.v0_index as usize]`
ExtractMinMaxPanics(t, positions) ==
    \E k \in 1..3 : ~IndexInside(t.vertex_indices[k], Len(positions))

\* TriangleMesh::get_triangle: both `expect`
GetTrianglePanics(t, positions, normals) ==
    \/ \E k \in 1..3 : ~IndexInside(t.vertex_indices[k], Len(positions))
    \/ ~IndexInside(t.normal_index, Len(normals))

\* a record whose range starts at the head of the triangle list
ObjectDataAtZero(identifier, triangle_start_index, triangle_count) ==
    [identifier |-> identifier, triangle_start_index |-> 0,
     triangle_count |-> triangle_count]

\* ObjectData::new / Object::new: the record of an object
ObjectData(identifier, triangle_start_index, triangle_count) ==
    [identifier |-> identifier, triangle_start_index |-> triangle_start_index,
     triangle_count |-> triangle_count]

\* Object::bounding_box panics on a triangle of the object
ObjectNewPanics(pipeline, triangles) ==
    /\ pipeline = "get_objects"
    /\ \E k \in 1..Len(triangles) : GetTrianglePanics(triangles[k], ParsedPositions, ParsedNormals)

\* the loop over the object map in the order the HashMap iterates, from
\* entry i on: the first panic ends it
RECURSIVE ObjectsScan(_, _, _, _, _, _, _, _)
ObjectsScan(pipeline, order, object_map, material_map, checks, i, objects, triangles) ==
    IF i > Len(order) THEN [status |-> "ok", objects |-> objects, triangles |-> triangles,
                            error |-> ""]
    ELSE IF TriangleParser(pipeline, object_map[order[i]], material_map, checks).status # "ok"
         THEN [status |-> "panic", objects |-> <<>>, triangles |-> <<>>,
               error |-> TriangleParser(pipeline, object_map[order[i]], material_map,
                                        checks).error]
    ELSE IF ObjectNewPanics(pipeline,
                TriangleParser(pipeline, object_map[order[i]], material_map, checks).triangles)
         THEN [status |-> "panic", objects |-> <<>>, triangles |-> <<>>,
               error |-> "Invalid index"]
    ELSE ObjectsScan(pipeline, order, object_map, material_map, checks, i + 1,
             Append(objects,
                 ObjectData(IF pipeline = "parse_obj" THEN i - 1 ELSE order[i],
                     Len(triangles),
                     Len(TriangleParser(pipeline, object_map[order[i]], material_map,
                                        checks).triangles))),
             triangles \o TriangleParser(pipeline, object_map[order[i]], material_map,
                                         checks).triangles)

\* the orders in which a HashMap may iterate its keys
IterationOrders(map) ==
    { order \in [1..Cardinality(DOMAIN map) -> DOMAIN map] :
        \A i, j \in DOMAIN order : i # j => order[i] # order[j] }

\* files of at most n lines
FilesUpTo(n) == UNION { [1..k -> ObjLines] : k \in 0..n }

InitParser ==
    /\ IdleCore /\ IdleToImage /\ IdleEmissive /\ IdleRayTracer /\ IdleMaterials /\ IdleObject /\ IdleTriangle /\ IdleCamera
    /\ ps_pipeline \in {"parse_obj", "get_objects"}
    /\ ps_overflow_checks \in BOOLEAN
    /\ ps_file \in FilesUpTo(MaxLines)
    /\ ps_material_map \in MaterialMaps
    /\ ps_object_map = <<>>
    /\ ps_parsed = <<>>
    /\ ps_objects = <<>>
    /\ ps_triangles = <<>>
    /\ ps_error = ""
    /\ ps_pc = "start"

\* what a step of the parsers leaves alone
ParserStep ==
    /\ UNCHANGED <<ps_pipeline, ps_overflow_checks, ps_file, ps_material_map>>
    /\ UNCHANGED psOthers

ExtractPartsObj ==
    /\ ps_pc = "start"
    /\ extract_parts_obj(ps_file).status = "ok"
    /\ ps_object_map' = extract_parts_obj(ps_file).object_map
    /\ ps_pc' = "extracted"
    /\ UNCHANGED <<ps_parsed, ps_objects, ps_triangles, ps_error>>
    /\ ParserStep

ExtractPartsObjPanic ==
    /\ ps_pc = "start"
    /\ extract_parts_obj(ps_file).status = "panic"
    /\ ps_error' = "called Option::unwrap() on a None value"
    /\ ps_pc' = "panicked"
    /\ UNCHANGED <<ps_object_map, ps_parsed, ps_objects, ps_triangles>>
    /\ ParserStep

\* what the triangle parser returns for the lines of each object
ParsedObjects ==
    [n \in DOMAIN ps_object_map |->
        TriangleParser(ps_pipeline, ps_object_map[n], ps_material_map, ps_overflow_checks)]

\* get_object_and_triangle_data / get_objects, the map iterated in order
GetObjects(order) ==
    /\ ps_pc = "extracted"
    /\ ObjectsScan(ps_pipeline, order, ps_object_map, ps_material_map, ps_overflow_checks,
                   1, <<>>, <<>>).status = "ok"
    /\ ps_objects' = ObjectsScan(ps_pipeline, order, ps_object_map, ps_material_map,
                                 ps_overflow_checks, 1, <<>>, <<>>).objects
    /\ ps_triangles' = ObjectsScan(ps_pipeline, order, ps_object_map, ps_material_map,
                                   ps_overflow_checks, 1, <<>>, <<>>).triangles
    /\ ps_parsed' = ParsedObjects
    /\ ps_pc' = IF ps_pipeline = "parse_obj" THEN "objects" ELSE "delivered"
    /\ UNCHANGED <<ps_object_map, ps_error>>
    /\ ParserStep

GetObjectsPanic(order) ==
    /\ ps_pc = "extracted"
    /\ ObjectsScan(ps_pipeline, order, ps_object_map, ps_material_map, ps_overflow_checks,
                   1, <<>>, <<>>).status = "panic"
    /\ ps_error' = ObjectsScan(ps_pipeline, order, ps_object_map, ps_material_map,
                               ps_overflow_checks, 1, <<>>, <<>>).error
    /\ ps_parsed' = ParsedObjects
    /\ ps_pc' = "panicked"
    /\ UNCHANGED <<ps_object_map, ps_objects, ps_triangles>>
    /\ ParserStep

\* calculate_bounding_boxes of parse_obj; the ObjData is then returned
CalculateBoundingBoxes ==
    /\ ps_pc = "objects"
    /\ \A k \in 1..Len(ps_triangles) : ~ExtractMinMaxPanics(ps_triangles[k], ParsedPositions)
    /\ ps_pc' = "delivered"
    /\ UNCHANGED <<ps_object_map, ps_parsed, ps_objects, ps_triangles, ps_error>>
    /\ ParserStep

CalculateBoundingBoxesPanic ==
    /\ ps_pc = "objects"
    /\ \E k \in 1..Len(ps_triangles) : ExtractMinMaxPanics(ps_triangles[k], ParsedPositions)
    /\ ps_error' = "index out of bounds"
    /\ ps_pc' = "panicked"
    /\ UNCHANGED <<ps_object_map, ps_parsed, ps_objects, ps_triangles>>
    /\ ParserStep

NextParser ==
    \/ ExtractPartsObj
    \/ ExtractPartsObjPanic
    \/ \E order \in IterationOrders(ps_object_map) : GetObjects(order)
    \/ \E order \in IterationOrders(ps_object_map) : GetObjectsPanic(order)
    \/ CalculateBoundingBoxes
    \/ CalculateBoundingBoxesPanic

SpecParser == InitParser /\ [][NextParser]_vars

\* the `o` declarations of a file, each with the lines that follow it up to
\* the next declaration
RECURSIVE Declarations(_, _, _)
Declarations(lines, i, found) ==
    IF i > Len(lines) THEN found
    ELSE IF lines[i].kind = "o"
         THEN Declarations(lines, i + 1, Append(found, [name |-> lines[i].name, lines |-> <<>>]))
    ELSE IF found = <<>> THEN Declarations(lines, i + 1, found)
    ELSE Declarations(lines, i + 1,
             [found EXCEPT ![Len(found)].lines = Append(@, lines[i])])

\* the tuples delivered for object record i
TrianglesOfObject(i) ==
    SubSeq(ps_triangles, ps_objects[i].triangle_start_index + 1,
           ps_objects[i].triangle_start_index + ps_objects[i].triangle_count)

\* C14: the object records delivered are in the order of the `o` lines of
\* the file: there is one record per `o` line, and record i holds the
\* triangles (and, where records are named, the name) of the i-th `o` line
C14_ObjectsInDeclarationOrder ==
    ps_pc = "delivered" =>
        /\ Len(ps_objects) = Len(Declarations(ps_file, 1, <<>>))
        /\ \A i \in 1..Len(ps_objects) :
              /\ TrianglesOfObject(i) =
                     TriangleParser(ps_pipeline, Declarations(ps_file, 1, <<>>)[i].lines,
                                    ps_material_map, ps_overflow_checks).triangles
              /\ ps_pipeline = "get_objects" =>
                     ps_objects[i].identifier = Declarations(ps_file, 1, <<>>)[i].name

\* C15: no scene delivered holds a triangle whose position index or normal
\* index is not smaller than the length of its collection: a file with such
\* a face makes scene assembly abort
C15_OutOfRangeIndexAborts ==
    ps_pc = "delivered" =>
        \A k \in 1..Len(ps_triangles) :
            /\ \A v \in 1..3 : ps_triangles[k].vertex_indices[v] < Len(ParsedPositions)
            /\ ps_triangles[k].normal_index < Len(ParsedNormals)

\* some `usemtl` line of the lines names a material the map does not hold
UnknownMaterialIn(lines) ==
    \E i \in 1..Len(lines) :
        lines[i].kind = "usemtl" /\ lines[i].name \notin DOMAIN ps_material_map

\* C16: for lines with a `usemtl` naming a material absent from the map the
\* triangle parser aborts with an error and returns no triangle list, and
\* no objects or triangles are delivered
C16_UnknownMaterialAborts ==
    \A n \in DOMAIN ps_parsed :
        UnknownMaterialIn(ps_object_map[n]) =>
            /\ ps_parsed[n].status = "panic"
            /\ ps_parsed[n].triangles = <<>>
            /\ ps_pc = "panicked" /\ ps_objects = <<>> /\ ps_triangles = <<>>

\* the parser stopped at an unknown material that faces follow
C16_Witness ==
    /\ ps_pc = "panicked"
    /\ ps_error = "Material not found"
    /\ \E n \in DOMAIN ps_parsed :
          \E i, j \in 1..Len(ps_object_map[n]) :
              /\ i < j
              /\ ps_object_map[n][i].kind = "usemtl"
              /\ ps_object_map[n][i].name \notin DOMAIN ps_material_map
              /\ ps_object_map[n][j].kind = "f"

\* the positions in lines of its `f` lines, in order
RECURSIVE FacePositions(_, _)
FacePositions(lines, i) ==
    IF i > Len(lines) THEN <<>>
    ELSE IF lines[i].kind = "f" THEN <<i>> \o FacePositions(lines, i + 1)
    ELSE FacePositions(lines, i + 1)

\* the positions of the `usemtl` lines before line i
MaterialsBefore(lines, i) == { j \in 1..(i - 1) : lines[j].kind = "usemtl" }

\* tuple t is the tuple of the `f` line at position i of lines
TupleOfFace(t, lines, i) ==
    /\ t.vertex_indices = <<lines[i].groups[1].pos - 1, lines[i].groups[2].pos - 1,
                            lines[i].groups[3].pos - 1>>
    /\ t.normal_index = lines[i].groups[1].norm - 1
    /\ MaterialsBefore(lines, i) # {} =>
           t.material_index =
               ps_material_map[lines[CHOOSE j \in MaterialsBefore(lines, i) :
                                         \A h \in MaterialsBefore(lines, i) : h <= j].name]

\* the sum of the triangle counts of the records before record i
RECURSIVE CountsBefore(_, _)
CountsBefore(objects, i) ==
    IF i <= 1 THEN 0
    ELSE CountsBefore(objects, i - 1) + objects[i - 1].triangle_count

\* the zero-based positions [start, start + count) of record i
RangeOfObject(objects, i) ==
    { k \in 0..(objects[i].triangle_start_index + objects[i].triangle_count - 1) :
        k >= objects[i].triangle_start_index }

\* C28: the object records partition the flat triangle list: each start is
\* the sum of the counts before it, the ranges lie inside the list, are
\* pairwise disjoint and cover every triangle exactly once
C28_ObjectsPartitionTriangles ==
    ps_pc \in {"objects", "delivered"} =>
        /\ \A i \in 1..Len(ps_objects) :
               /\ ps_objects[i].triangle_start_index = CountsBefore(ps_objects, i)
               /\ RangeOfObject(ps_objects, i) \subseteq 0..(Len(ps_triangles) - 1)
        /\ \A i, j \in 1..Len(ps_objects) :
               i # j => RangeOfObject(ps_objects, i) \cap RangeOfObject(ps_objects, j) = {}
        /\ \A k \in 0..(Len(ps_triangles) - 1) :
               Cardinality({ i \in 1..Len(ps_objects) : k \in RangeOfObject(ps_objects, i) }) = 1

\* get_object_and_triangle_data delivered two records with triangles
C28_Witness ==
    /\ ps_pc = "objects"
    /\ ps_pipeline = "parse_obj"
    /\ Len(ps_objects) = 2
    /\ \A i \in 1..2 : ps_objects[i].triangle_count >= 1

\* C20: for lines whose materials are all in the map the triangle parser
\* returns one tuple per `f` line, in order, holding the three positions and
\* the normal of the first group, each less one, and the index of the most
\* recent `usemtl`; the normals of the second and third group are not used
C20_OneTuplePerFace ==
    \A n \in DOMAIN ps_parsed :
        ~UnknownMaterialIn(ps_object_map[n]) =>
            /\ ps_parsed[n].status = "ok"
            /\ Len(ps_parsed[n].triangles) = Len(FacePositions(ps_object_map[n], 1))
            /\ \A k \in 1..Len(ps_parsed[n].triangles) :
                   TupleOfFace(ps_parsed[n].triangles[k], ps_object_map[n],
                               FacePositions(ps_object_map[n], 1)[k])

----------------------------------------------------------------------------
\* The MTL parsers.  A file is its sequence of lines; numbers are in
\* hundredths.  A line is a `newmtl` declaration, a property line of one of
\* the eight keywords, or any other non-empty line (a comment, a keyword the
\* parsers do not know).

MaterialNew(ambient_color, diffuse_color, specular_color, specular_highlight, emissive_color, transparency, index_of_refraction) ==
    [ambient_color |-> ambient_color, diffuse_color |-> diffuse_color,
     specular_color |-> specular_color, specular_highlight |-> specular_highlight,
     emissive_color |-> emissive_color, transparency |-> transparency,
     index_of_refraction |-> index_of_refraction]

MaterialFields ==
    {"ambient_color", "diffuse_color", "specular_color", "specular_highlight",
     "emissive_color", "transparency", "index_of_refraction"}

\* Material::default(): derived for the record of parser/material_parser.rs
\* (every field zero), written out for the Material of material/mod.rs
\* (index of refraction 1.0)
DefaultIndexOfRefraction(parser) == IF parser = "material_parser" THEN 0 ELSE 100

MaterialDefault(parser) ==
    MaterialNew(ZERO, ZERO, ZERO, 0, ZERO, 0, DefaultIndexOfRefraction(parser))

MtlLine(kind, name, color, number) ==
    [kind |-> kind, name |-> name, color |-> color, number |-> number]

\* the keywords parse_material_property accepts
PropertyKeywords == {"Ka", "Kd", "Ks", "Ns", "Ke", "d", "Ni", "illum"}

\* the field each keyword assigns; illum assigns none
FieldOfKeyword(kind) ==
    CASE kind = "Ka" -> "ambient_color"
      [] kind = "Kd" -> "diffuse_color"
      [] kind = "Ks" -> "specular_color"
      [] kind = "Ns" -> "specular_highlight"
      [] kind = "Ke" -> "emissive_color"
      [] kind = "d" -> "transparency"
      [] kind = "Ni" -> "index_of_refraction"
      [] OTHER -> "none"

\* one arm of the match of material_from_properties
ApplyProperty(material, line) ==
    IF FieldOfKeyword(line.kind) = "none" THEN material
    ELSE IF line.kind \in {"Ka", "Kd", "Ks", "Ke"}
         THEN [material EXCEPT ![FieldOfKeyword(line.kind)] = line.color]
         ELSE [material EXCEPT ![FieldOfKeyword(line.kind)] = line.number]

\* material_from_properties over the n property lines after line i
RECURSIVE MaterialFromProperties(_, _, _, _)
MaterialFromProperties(lines, i, n, material) ==
    IF n = 0 THEN material
    ELSE MaterialFromProperties(lines, i + 1, n - 1, ApplyProperty(material, lines[i + 1]))

material_from_properties(parser, lines, i, n) ==
    MaterialFromProperties(lines, i, n, MaterialDefault(parser))

\* separated_list1(line_ending, parse_material_property): the number of
\* property lines in a row from line i on; the list ends, without an error, at
\* the first line no property parser accepts
RECURSIVE PropertyRun(_, _)
PropertyRun(lines, i) ==
    IF i > Len(lines) \/ lines[i].kind \notin PropertyKeywords THEN 0
    ELSE 1 + PropertyRun(lines, i + 1)

MapPut(map, key, value) ==
    [k \in DOMAIN map \cup {key} |-> IF k = key THEN value ELSE map[k]]

MaterialsOk(materials, map) == [status |-> "ok", materials |-> materials, map |-> map]
MaterialsErr == [status |-> "error", materials |-> <<>>, map |-> <<>>]

\* the loop of materials from line i on.  parse_material fails when no
\* property line follows the declaration; skipping a line fails when the
\* line is the last one and no line ending follows it
RECURSIVE MaterialsScan(_, _, _, _, _, _)
MaterialsScan(parser, lines, newline_at_end, i, materials, map) ==
    IF i > Len(lines) THEN MaterialsOk(materials, map)
    ELSE IF lines[i].kind = "newmtl"
    THEN IF PropertyRun(lines, i + 1) = 0 THEN MaterialsErr
         ELSE MaterialsScan(parser, lines, newline_at_end,
                            i + 1 + PropertyRun(lines, i + 1),
                            Append(materials,
                                   material_from_properties(parser, lines, i,
                                                            PropertyRun(lines, i + 1))),
                            MapPut(map, lines[i].name, Len(materials)))
    ELSE IF i = Len(lines) /\ ~newline_at_end THEN MaterialsErr
    ELSE MaterialsScan(parser, lines, newline_at_end, i + 1, materials, map)

materials(parser, lines, newline_at_end) ==
    MaterialsScan(parser, lines, newline_at_end, 1, <<>>, <<>>)

MaterialParsers == {"material_parser", "material"}

MtlLines ==
    { MtlLine("newmtl", "Material", ZERO, 0), MtlLine("newmtl", "Red", ZERO, 0),
      MtlLine("Kd", "", <<80, 0, 0>>, 0), MtlLine("Ke", "", <<50, 50, 50>>, 0),
      MtlLine("Ni", "", ZERO, 145), MtlLine("illum", "", ZERO, 2),
      MtlLine("other", "", ZERO, 0) }

MtlFiles == UNION { [1..n -> MtlLines] : n \in 0..MaxLines }

InitMaterials ==
    /\ IdleCore /\ IdleToImage /\ IdleEmissive /\ IdleRayTracer /\ IdleParser /\ IdleObject /\ IdleTriangle /\ IdleCamera
    /\ mt_parser \in MaterialParsers
    /\ mt_file \in MtlFiles
    /\ mt_newline_at_end \in BOOLEAN
    /\ mt_materials = <<>>
    /\ mt_map = <<>>
    /\ mt_pc = "call"

MaterialsResult(r) ==
    /\ r.status = "ok"
    /\ mt_materials' = r.materials
    /\ mt_map' = r.map
    /\ mt_pc' = "returned"

\* materials(input) returns Ok
MaterialsReturn ==
    /\ mt_pc = "call"
    /\ MaterialsResult(materials(mt_parser, mt_file, mt_newline_at_end))
    /\ UNCHANGED <<mt_parser, mt_file, mt_newline_at_end>>
    /\ UNCHANGED mtOthers

\* materials(input) returns Err
MaterialsError ==
    /\ mt_pc = "call"
    /\ materials(mt_parser, mt_file, mt_newline_at_end).status = "error"
    /\ mt_pc' = "error"
    /\ UNCHANGED <<mt_parser, mt_file, mt_newline_at_end, mt_materials, mt_map>>
    /\ UNCHANGED mtOthers

NextMaterials == MaterialsReturn \/ MaterialsError

SpecMaterials == InitMaterials /\ [][NextMaterials]_vars

\* the positions of the newmtl lines, in order
RECURSIVE BlockStarts(_, _)
BlockStarts(lines, i) ==
    IF i > Len(lines) THEN <<>>
    ELSE IF lines[i].kind = "newmtl" THEN <<i>> \o BlockStarts(lines, i + 1)
    ELSE BlockStarts(lines, i + 1)

\* the lines of the block declared at line i: up to the next newmtl line
RECURSIVE BlockEnd(_, _)
BlockEnd(lines, i) ==
    IF i + 1 > Len(lines) \/ lines[i + 1].kind = "newmtl" THEN i
    ELSE BlockEnd(lines, i + 1)

\* the values the lines of keyword field f give in the block declared at i
BlockValues(lines, i, f) ==
    { (IF lines[j].kind \in {"Ka", "Kd", "Ks", "Ke"} THEN lines[j].color
       ELSE lines[j].number) :
          j \in { h \in (i + 1)..BlockEnd(lines, i) : lines[h].kind # "illum"
                                                        /\ FieldOfKeyword(lines[h].kind) = f } }

DeclaredNames(lines) == { lines[i].name : i \in { h \in 1..Len(lines) : lines[h].kind = "newmtl" } }

\* material m is a material of the block declared at line i: a field no
\* line of the block names holds the default, and no field holds a value
\* other than the default and the values its own keyword gives
MaterialOfBlock(m, parser, lines, i) ==
    \A f \in MaterialFields :
        /\ BlockValues(lines, i, f) = {} => m[f] = MaterialDefault(parser)[f]
        /\ m[f] = MaterialDefault(parser)[f] \/ m[f] \in BlockValues(lines, i, f)

MaterialsOfBlocks ==
    /\ Len(mt_materials) = Len(BlockStarts(mt_file, 1))
    /\ \A k \in 1..Len(mt_materials) :
           MaterialOfBlock(mt_materials[k], mt_parser, mt_file, BlockStarts(mt_file, 1)[k])
    /\ DOMAIN mt_map = DeclaredNames(mt_file)
    /\ \A n \in DOMAIN mt_map :
           /\ mt_map[n] + 1 \in 1..Len(mt_materials)
           /\ mt_file[BlockStarts(mt_file, 1)[mt_map[n] + 1]].name = n

\* C21: the MTL parser returns one material per newmtl block, in
\* declaration order; the map sends every declared name to the position of a
\* block of that name; a field whose keyword is absent from the block holds
\* its default, and illum changes no field
C21_OneMaterialPerBlock ==
    mt_pc \in {"returned", "error"} => mt_pc = "returned" /\ MaterialsOfBlocks

\* what does hold: whenever the parser returns, it returns the materials of
\* the blocks
C21_ReturnedMaterialsOfBlocks == mt_pc = "returned" => MaterialsOfBlocks

\* a block without a property line makes the parser fail
C21_EmptyBlockFails ==
    /\ mt_pc = "error"
    /\ mt_file = <<MtlLine("newmtl", "Material", ZERO, 0), MtlLine("newmtl", "Red", ZERO, 0),
                   MtlLine("Kd", "", <<80, 0, 0>>, 0)>>

----------------------------------------------------------------------------
(* Object::new and Object::intersect (scene/object.rs), step by step *)

\* rays along the faces and edges of the boxes, besides the rays of the scene
ObjectRays ==
    Rays \cup { Ray(o, 1, <<0, 0, 1>>) : o \in {<<4, 0, 0>>, <<-4, -4, 0>>, <<5, 0, 0>>} }

InitObject ==
    /\ IdleCore /\ IdleToImage /\ IdleEmissive /\ IdleRayTracer /\ IdleParser /\ IdleMaterials /\ IdleTriangle /\ IdleCamera
    /\ ob_build \in Builds
    /\ ob_mesh = TriangleMesh(Positions, Normals, LitMaterials, TriangleIndices)
    /\ \E r \in ObjectRanges : ob_start = r[1] /\ ob_count = r[2]
    /\ ob_self = [identifier |-> ""]
    /\ ob_ray \in ObjectRays
    /\ ob_tmin \in TMins
    /\ ob_tmax \in TMaxs
    /\ ob_box = "untested"
    /\ ob_i = 0
    /\ ob_tests = 0
    /\ ob_closest = None
    /\ ob_result = None
    /\ ob_pc = "new"

\* the box test never rejecting
BoxRejectsNever(box) == FALSE

\* `if !self.bounding_box.intersect(ray, t_min, t_max)`
BoxRejects(box) == box = "rejected"

\* Object::new
ObjectNew ==
    /\ ob_pc = "new"
    /\ ob_self' = Object(ob_build, "o", ob_start, ob_count, ob_mesh)
    /\ ob_pc' = "call"
    /\ UNCHANGED <<ob_build, ob_mesh, ob_start, ob_count, ob_ray, ob_tmin, ob_tmax,
                   ob_box, ob_i, ob_tests, ob_closest, ob_result>>
    /\ UNCHANGED obOthers

\* intersect: `self.bounding_box.intersect(ray, t_min, t_max)`
ObjectBoxTest ==
    /\ ob_pc = "call"
    /\ ob_box' = IF BoundingBoxIntersect(ob_build, ob_self.bounding_box, ob_ray, ob_tmin, ob_tmax)
                 THEN "accepted" ELSE "rejected"
    /\ ob_pc' = "tested"
    /\ UNCHANGED <<ob_build, ob_mesh, ob_start, ob_count, ob_self, ob_ray, ob_tmin, ob_tmax,
                   ob_i, ob_tests, ob_closest, ob_result>>
    /\ UNCHANGED obOthers

\* intersect: `return None`
ObjectReturnNone ==
    /\ ob_pc = "tested"
    /\ BoxRejects(ob_box)
    /\ ob_result' = None
    /\ ob_pc' = "returned"
    /\ UNCHANGED <<ob_build, ob_mesh, ob_start, ob_count, ob_self, ob_ray, ob_tmin, ob_tmax,
                   ob_box, ob_i, ob_tests, ob_closest>>
    /\ UNCHANGED obOthers

\* intersect: one turn of `for triangle in self.triangles()`
ObjectTriangleTest ==
    /\ ob_pc = "tested"
    /\ ~BoxRejects(ob_box)
    /\ ob_i < ob_self.triangle_count
    /\ ob_closest' =
           UpdateClosest(
               TriangleIntersect(
                   get_triangle(ob_mesh,
                       ObjectTriangleIndices(ob_mesh, ob_self.triangle_start_index,
                                             ob_self.triangle_count)[ob_i + 1]),
                   ob_ray, ob_tmin, ob_tmax),
               ob_closest)
    /\ ob_i' = ob_i + 1
    /\ ob_tests' = ob_tests + 1
    /\ UNCHANGED <<ob_build, ob_mesh, ob_start, ob_count, ob_self, ob_ray, ob_tmin, ob_tmax,
                   ob_box, ob_result, ob_pc>>
    /\ UNCHANGED obOthers

\* intersect: the loop is over, `closest_hit` is returned
ObjectReturnClosest ==
    /\ ob_pc = "tested"
    /\ ~BoxRejects(ob_box)
    /\ ob_i = ob_self.triangle_count
    /\ ob_result' = ob_closest
    /\ ob_pc' = "returned"
    /\ UNCHANGED <<ob_build, ob_mesh, ob_start, ob_count, ob_self, ob_ray, ob_tmin, ob_tmax,
                   ob_box, ob_i, ob_tests, ob_closest>>
    /\ UNCHANGED obOthers

NextObject ==
    \/ ObjectNew
    \/ ObjectBoxTest
    \/ ObjectReturnNone
    \/ ObjectTriangleTest
    \/ ObjectReturnClosest

SpecObject == InitObject /\ [][NextObject]_vars

\* the vertices of the triangles of the range of the object
ObjectVertices ==
    UNION { { get_triangle(ob_mesh, ob_mesh.triangle_indices[ob_start + k]).v0,
              get_triangle(ob_mesh, ob_mesh.triangle_indices[ob_start + k]).v1,
              get_triangle(ob_mesh, ob_mesh.triangle_indices[ob_start + k]).v2 } :
            k \in 1..ob_count }

\* C22: the box of an object over a non-empty range holds every vertex of
\* every triangle of the range, componentwise, and each of its six bounds is
\* the coordinate of some vertex of the range
C22_BoxContainsAndIsTight ==
    (ob_pc \in {"call", "tested", "returned"} /\ ob_count >= 1) =>
        \A i \in 1..3 :
            /\ \A v \in ObjectVertices :
                   /\ XGe(Fin(v[i], 1), ob_self.bounding_box.min[i])
                   /\ XGe(ob_self.bounding_box.max[i], Fin(v[i], 1))
            /\ \E v \in ObjectVertices : ob_self.bounding_box.min[i] = Fin(v[i], 1)
            /\ \E v \in ObjectVertices : ob_self.bounding_box.max[i] = Fin(v[i], 1)

\* an object over two triangles in different planes was built
C22_Witness ==
    /\ ob_pc = "call"
    /\ ob_count = 2
    /\ \E i \in 1..3 : ob_self.bounding_box.min[i] # ob_self.bounding_box.max[i]
    /\ \E v \in ObjectVertices : \E i \in 1..3 :
           /\ ob_self.bounding_box.min[i] # Fin(v[i], 1)
           /\ ob_self.bounding_box.max[i] # Fin(v[i], 1)

\* C23: a triangle is tested only after the box test has accepted the ray,
\* and a call whose box test rejects returns a miss without any triangle test
C23_BoxTestBeforeTriangleTests ==
    /\ ob_tests > 0 => ob_box = "accepted"
    /\ ob_pc = "returned" => ob_box # "untested"
    /\ (ob_pc = "returned" /\ ob_box = "rejected") => (ob_tests = 0 /\ ob_result = None)

\* the box of an object with triangles rejected the ray and the call returned
C23_Witness ==
    /\ ob_pc = "returned"
    /\ ob_box = "rejected"
    /\ ob_self.triangle_count >= 1

\* C24: an object of zero triangles has the box (+inf, -inf) and its
\* intersect returns a miss
C24_EmptyObjectNeverHit ==
    (ob_pc \in {"call", "tested", "returned"} /\ ob_count = 0) =>
        /\ ob_self.bounding_box = BoundingBox(<<PInf, PInf, PInf>>, <<NInf, NInf, NInf>>)
        /\ ob_pc = "returned" => ob_result = None

\* intersect of an object of zero triangles returned
C24_Witness ==
    /\ ob_pc = "returned"
    /\ ob_count = 0
    /\ ob_self.triangle_count = 0

\* the parameter at which the ray crosses the plane coordinate i = c
AxisParam(c, ray, i) == Frac(c * ray.w - ray.origin[i], ray.w * ray.direction[i])

FracMax(p, q) == IF FracLt(p, q) THEN q ELSE p

\* the axes along which the ray moves
MovingAxes(ray) == { i \in 1..3 : ray.direction[i] # 0 }

\* max(t_min, largest per-axis entry parameter)
SlabEntry(lo, hi, ray, t_min) ==
    LET S == {t_min} \cup { FracMin(AxisParam(lo[i], ray, i), AxisParam(hi[i], ray, i)) :
                            i \in MovingAxes(ray) }
    IN  CHOOSE x \in S : \A y \in S : ~FracLt(x, y)

\* min(t_max, smallest per-axis exit parameter)
SlabExit(lo, hi, ray, t_max) ==
    LET S == {t_max} \cup { FracMax(AxisParam(lo[i], ray, i), AxisParam(hi[i], ray, i)) :
                            i \in MovingAxes(ray) }
    IN  CHOOSE x \in S : \A y \in S : ~FracLt(y, x)

\* along an axis the ray does not move on, the origin lies within the slab
\* at every parameter or at none
InsideStillSlabs(lo, hi, ray) ==
    \A i \in (1..3) \ MovingAxes(ray) :
        lo[i] * ray.w <= ray.origin[i] /\ ray.origin[i] <= hi[i] * ray.w

\* the ray meets the box [lo, hi] at a parameter within [t_min, t_max]
RayMeetsBox(lo, hi, ray, t_min, t_max) ==
    /\ InsideStillSlabs(lo, hi, ray)
    /\ ~FracLt(SlabExit(lo, hi, ray, t_max), SlabEntry(lo, hi, ray, t_min))

\* the integer bounds of the box of an object with triangles
BoxLo(box) == [i \in 1..3 |-> box.min[i].v[1]]
BoxHi(box) == [i \in 1..3 |-> box.max[i].v[1]]

\* C26: BoundingBox::intersect accepts a ray exactly when
\* max(t_min, largest entry) <= min(t_max, smallest exit); a ray that only
\* touches the box is accepted
C26_BoxAcceptsIffEntryLeExit ==
    (ob_box # "untested" /\ ob_count >= 1) =>
        (ob_box = "accepted" <=>
             RayMeetsBox(BoxLo(ob_self.bounding_box), BoxHi(ob_self.bounding_box),
                         ob_ray, ob_tmin, ob_tmax))

\* the box test rejected a ray that touches the box
C26_Witness_TouchingRayRejected ==
    /\ ob_box = "rejected"
    /\ ob_count >= 1
    /\ RayMeetsBox(BoxLo(ob_self.bounding_box), BoxHi(ob_self.bounding_box),
                   ob_ray, ob_tmin, ob_tmax)
    /\ SlabEntry(BoxLo(ob_self.bounding_box), BoxHi(ob_self.bounding_box), ob_ray, ob_tmin)
           = SlabExit(BoxLo(ob_self.bounding_box), BoxHi(ob_self.bounding_box), ob_ray, ob_tmax)

\* a ray touching a flat box away from its faces' planes is accepted
C26_Witness_TouchingRayAccepted ==
    /\ ob_box = "accepted"
    /\ ob_count >= 1
    /\ SlabEntry(BoxLo(ob_self.bounding_box), BoxHi(ob_self.bounding_box), ob_ray, ob_tmin)
           = SlabExit(BoxLo(ob_self.bounding_box), BoxHi(ob_self.bounding_box), ob_ray, ob_tmax)

\* C29: Object::intersect returns what the triangle loop alone returns
C29_CullingNeverChangesResult ==
    ob_pc = "returned" =>
        ob_result = ObjectScan(ob_mesh, ObjectTriangleIndices(ob_mesh, ob_start, ob_count),
                               1, ob_ray, ob_tmin, ob_tmax, None)

\* the box test rejected a ray that hits a triangle of the object
C29_Witness_CulledHit ==
    /\ ob_pc = "returned"
    /\ ob_box = "rejected"
    /\ ObjectScan(ob_mesh, ObjectTriangleIndices(ob_mesh, ob_start, ob_count),
                  1, ob_ray, ob_tmin, ob_tmax, None).some

----------------------------------------------------------------------------
(* Triangle::intersect (primitives/triangle/mod.rs) applied to drawn inputs *)

\* rays towards the edges and vertices of the triangles, besides the others
TriangleRays ==
    ObjectRays \cup { Ray(o, 1, <<0, 0, 1>>) : o \in {<<0, -4, 0>>, <<0, 4, 0>>, <<2, 0, 0>>,
                                                      <<1, 1, 0>>, <<2, 2, 0>>} }

InitTriangle ==
    /\ IdleCore /\ IdleToImage /\ IdleEmissive /\ IdleRayTracer /\ IdleParser /\ IdleMaterials /\ IdleObject /\ IdleCamera
    /\ \E k \in 1..Len(TriangleIndices) :
           tg_self = get_triangle(TriangleMesh(Positions, Normals, LitMaterials, TriangleIndices),
                                  TriangleIndices[k])
    /\ tg_ray \in TriangleRays
    /\ tg_tmin \in TMins
    /\ tg_tmax \in TMaxs
    /\ tg_result = None
    /\ tg_pc = "call"

TriangleReturns(r, some) ==
    /\ r.some = some
    /\ tg_result' = r
    /\ tg_pc' = "done"
    /\ UNCHANGED <<tg_self, tg_ray, tg_tmin, tg_tmax>>
    /\ UNCHANGED tgOthers

\* intersect returns Some(Hit)
TriangleIntersectHit ==
    /\ tg_pc = "call"
    /\ TriangleReturns(TriangleIntersect(tg_self, tg_ray, tg_tmin, tg_tmax), TRUE)

\* intersect returns None
TriangleIntersectMiss ==
    /\ tg_pc = "call"
    /\ TriangleReturns(TriangleIntersect(tg_self, tg_ray, tg_tmin, tg_tmax), FALSE)

NextTriangle == TriangleIntersectHit \/ TriangleIntersectMiss

SpecTriangle == InitTriangle /\ [][NextTriangle]_vars

\* the determinant a = e0 . (D x e1)
Determinant(tri, ray) ==
    Dot(VSub(tri.v1, tri.v0), Cross(ray.direction, VSub(tri.v2, tri.v0)))

\* the point of the ray in the plane of the triangle is v0 + u e0 + v e1 at
\* the parameter t (for a # 0); s is w * (origin - v0)
BaryS(tri, ray) == VSub(ray.origin, VScale(tri.v0, ray.w))

BaryU(tri, ray) ==
    Frac(Dot(BaryS(tri, ray), Cross(ray.direction, VSub(tri.v2, tri.v0))),
         ray.w * Determinant(tri, ray))

BaryV(tri, ray) ==
    Frac(Dot(ray.direction, Cross(BaryS(tri, ray), VSub(tri.v1, tri.v0))),
         ray.w * Determinant(tri, ray))

BaryT(tri, ray) ==
    Frac(Dot(VSub(tri.v2, tri.v0), Cross(BaryS(tri, ray), VSub(tri.v1, tri.v0))),
         ray.w * Determinant(tri, ray))

FracAdd(p, q) == Frac(p[1] * q[2] + q[1] * p[2], p[2] * q[2])

\* the point is inside the triangle or on its edges or vertices
InsideOrOnEdge(u, v) ==
    /\ 0 <= u[1] /\ u[1] <= u[2]
    /\ 0 <= v[1]
    /\ FracAdd(u, v)[1] <= FracAdd(u, v)[2]

\* the point is on an edge or a vertex
OnEdge(u, v) ==
    /\ InsideOrOnEdge(u, v)
    /\ (u[1] = 0 \/ u[1] = u[2] \/ v[1] = 0 \/ FracAdd(u, v)[1] = FracAdd(u, v)[2])

ZeroArea(tri) == Cross(VSub(tri.v1, tri.v0), VSub(tri.v2, tri.v0)) = ZERO

\* C25: Triangle::intersect returns a miss when the determinant is zero (a
\* ray parallel to the plane, a triangle of zero area), and a hit for a point
\* on an edge or a vertex whose parameter lies between the bounds
C25_ZeroDeterminantMissesEdgesHit ==
    tg_pc = "done" =>
        /\ Determinant(tg_self, tg_ray) = 0 => ~tg_result.some
        /\ ZeroArea(tg_self) => ~tg_result.some
        /\ (/\ Determinant(tg_self, tg_ray) # 0
            /\ OnEdge(BaryU(tg_self, tg_ray), BaryV(tg_self, tg_ray))
            /\ FracLt(tg_tmin, BaryT(tg_self, tg_ray))
            /\ FracLt(BaryT(tg_self, tg_ray), tg_tmax))
           => (tg_result.some /\ tg_result.hit.distance = BaryT(tg_self, tg_ray))

\* a ray through a point of an edge where u + v = 1 and v > 0 was a hit
C25_Witness ==
    /\ tg_pc = "done"
    /\ tg_result.some
    /\ Determinant(tg_self, tg_ray) # 0
    /\ BaryV(tg_self, tg_ray)[1] > 0
    /\ FracAdd(BaryU(tg_self, tg_ray), BaryV(tg_self, tg_ray)) = <<1, 1>>

\* a triangle of zero area was missed
C25_Witness_ZeroArea ==
    /\ tg_pc = "done"
    /\ ZeroArea(tg_self)
    /\ ~tg_result.some

\* a ray parallel to the plane of a triangle with area was missed
C25_Witness_Parallel ==
    /\ tg_pc = "done"
    /\ ~ZeroArea(tg_self)
    /\ Determinant(tg_self, tg_ray) = 0
    /\ ~tg_result.some

----------------------------------------------------------------------------
(* Camera::get_camera_rays and Camera::get_ray (scene/camera.rs) *)

\* get_ray(x, y): the ray starts at the camera position; its direction is
\* the image of the point coord = (x / width, y / height) * 2 - 1 under the
\* inverse projection and the inverse view
CameraRay(position, w, h, x, y) ==
    [pixel |-> <<x, y>>,
     origin |-> position,
     coord |-> <<Frac(2 * x - w, w), Frac(2 * y - h, h)>>]

CameraPositions == { ZERO, DefaultPosition, <<30, 10, -20>> }

InitCamera ==
    /\ IdleCore /\ IdleToImage /\ IdleEmissive /\ IdleRayTracer /\ IdleParser /\ IdleMaterials /\ IdleObject /\ IdleTriangle
    /\ cm_width \in 1..MaxSide
    /\ cm_height \in 1..MaxSide
    /\ cm_position \in CameraPositions
    /\ cm_x = 0
    /\ cm_y = 0
    /\ cm_rays = <<>>
    /\ cm_pc = "loop"

\* `for x in 0..=self.width { for y in 0..=self.height {`
\* `rays.push(self.get_ray(x, y))`: one turn of the inner loop
CameraRaysPush ==
    /\ cm_pc = "loop"
    /\ cm_x <= cm_width
    /\ cm_y <= cm_height
    /\ cm_rays' = Append(cm_rays, CameraRay(cm_position, cm_width, cm_height, cm_x, cm_y))
    /\ IF cm_y = cm_height
       THEN cm_x' = cm_x + 1 /\ cm_y' = 0
       ELSE cm_x' = cm_x /\ cm_y' = cm_y + 1
    /\ UNCHANGED <<cm_width, cm_height, cm_position, cm_pc>>
    /\ UNCHANGED cmOthers

\* the outer range is exhausted: `rays` is returned
CameraRaysReturn ==
    /\ cm_pc = "loop"
    /\ cm_x > cm_width
    /\ cm_pc' = "returned"
    /\ UNCHANGED <<cm_width, cm_height, cm_position, cm_x, cm_y, cm_rays>>
    /\ UNCHANGED cmOthers

NextCamera == CameraRaysPush \/ CameraRaysReturn

SpecCamera == InitCamera /\ [][NextCamera]_vars

\* C30: get_camera_rays returns width * height rays, one for each pixel
\* (x, y) with 0 <= x < width and 0 <= y < height and none for another
\* coordinate, each starting at the camera position
C30_OneRayPerPixel ==
    cm_pc = "returned" =>
        /\ Len(cm_rays) = cm_width * cm_height
        /\ \A p \in Grid(cm_width, cm_height) :
               Cardinality({ k \in 1..Len(cm_rays) : cm_rays[k].pixel = p }) = 1
        /\ \A k \in 1..Len(cm_rays) :
               /\ cm_rays[k].pixel \in Grid(cm_width, cm_height)
               /\ cm_rays[k].origin = cm_position

\* what does hold: one ray per coordinate of 0..=width by 0..=height, each
\* starting at the camera position
C30_OneRayPerInclusiveCoordinate ==
    cm_pc = "returned" =>
        /\ Len(cm_rays) = (cm_width + 1) * (cm_height + 1)
        /\ \A p \in Canvas(cm_width, cm_height) :
               Cardinality({ k \in 1..Len(cm_rays) : cm_rays[k].pixel = p }) = 1
        /\ \A k \in 1..Len(cm_rays) : cm_rays[k].origin = cm_position

\* a ray for the coordinate (width, height), outside the image, was returned
C30_Witness_RayOutsideImage ==
    /\ cm_pc = "returned"
    /\ \E k \in 1..Len(cm_rays) : cm_rays[k].pixel = <<cm_width, cm_height>>

============================================================================
